---- MODULE Spec2Model ----
(***************************************************************************)
(* Model of the bitfield crate: the generated bit specifiers B1..B128 and  *)
(* the bool specifier (Specifier::get / Specifier::set), the enum          *)
(* specifiers derived by BitfieldSpecifier, and the accessors that the     *)
(* #[bitfield] attribute generates for a struct.                           *)
(*                                                                         *)
(* Integers of the model are below 2^31.  Bytes are 0..255, a storage is a *)
(* sequence of bytes (1-based here, 0-based in the source).                *)
(***************************************************************************)
EXTENDS Integers, Sequences, FiniteSets, TLC

\* ------------------------------------------------------------------ bounds
\* Length in bytes of the storage handed to a direct Specifier call.
BufLen == 3
\* Largest generated specifier B1..B<MaxBits> that a direct call exercises.
MaxBits == 10

\* --------------------------------------------------------------- constants
\* const MAX_BITS: u8 = 128
MAX_BITS == 128

\* A minimum that takes its first argument
Min_first(a, b) == a

\* ------------------------------------------------- machine integer helpers
Min(a, b) == IF a < b THEN a ELSE b

Pow2(n) == 2 ^ n

\* The low k bits of x.  Every integer of the model is below 2^31, so for
\* k >= 31 the low k bits of x are x itself.
LowBits(x, k) == IF k >= 31 THEN x ELSE x % Pow2(k)

\* Bit j (0 = least significant) of the natural number x.
BitOf(x, j) == (x \div Pow2(j)) % 2

RECURSIVE BitAnd(_, _)
\* a & b on unsigned integers
BitAnd(a, b) ==
    IF a = 0 \/ b = 0 THEN 0
    ELSE ((a % 2) * (b % 2)) + 2 * BitAnd(a \div 2, b \div 2)

RECURSIVE BitOr(_, _)
\* a | b on unsigned integers
BitOr(a, b) ==
    IF a = 0 THEN b
    ELSE IF b = 0 THEN a
    ELSE (IF (a % 2) + (b % 2) > 0 THEN 1 ELSE 0) + 2 * BitOr(a \div 2, b \div 2)

\* !x on u8
Not8(x) == 255 - x

\* x << n on u8, n < 8: the bits shifted past bit 7 are lost
Shl8(x, n) == (x * Pow2(n)) % 256

\* x >> n
Shr(x, n) == x \div Pow2(n)

\* u8::unbounded_shl: a shift by 8 or more gives 0
UnboundedShl8(x, n) == IF n >= 8 THEN 0 ELSE Shl8(x, n)

\* u8::wrapping_sub
WrappingSub8(a, b) == (a - b) % 256

\* x << n on an unsigned type of t bits: the bits shifted past bit t-1 are lost
ShlT(x, n, t) == LowBits(x * Pow2(n), t)

\* A ladder with the first step one bit too wide: 1..=9 => u8
get_primitive_type_9_bits_in_u8(bits) ==
    IF bits >= 1 /\ bits <= 9 THEN 8
    ELSE IF bits >= 10 /\ bits <= 16 THEN 16
    ELSE IF bits >= 17 /\ bits <= 32 THEN 32
    ELSE IF bits >= 33 /\ bits <= 64 THEN 64
    ELSE 128

\* The bit size of the primitive type of a field of `bits` bits.
get_primitive_type(bits) ==
    IF bits >= 1 /\ bits <= 8 THEN 8
    ELSE IF bits >= 9 /\ bits <= 16 THEN 16
    ELSE IF bits >= 17 /\ bits <= 32 THEN 32
    ELSE IF bits >= 33 /\ bits <= 64 THEN 64
    ELSE 128

\* Bit j of a storage: byte j/8, position j%8 from the least significant bit.
StorageBit(storage, j) == BitOf(storage[(j \div 8) + 1], j % 8)

\* ---------------------------------------- generated Specifier for B<BITS>
\* The panic of an index past the end of the slice
IndexOutOfBounds == "index out of bounds"

\* 1u8.unbounded_shl(bits_in_this_byte.into()).wrapping_sub(1)
chunk_mask(bits_in_this_byte) == WrappingSub8(UnboundedShl8(1, bits_in_this_byte), 1)

\* A get that forgets the mask: data_byte >> bit_offset
extract_bits_unmasked(data_byte, bit_offset, data_byte_mask) == Shr(data_byte, bit_offset)

\* (data_byte >> bit_offset) & data_byte_mask
extract_bits(data_byte, bit_offset, data_byte_mask) ==
    BitAnd(Shr(data_byte, bit_offset), data_byte_mask)

\* A get that forgets the shift: value |= T::from(bits)
merge_bits_no_shift(value, bits, bit_index_in_value, t) == BitOr(value, bits)

\* value |= T::from(bits) << bit_index_in_value, T of t bits
merge_bits(value, bits, bit_index_in_value, t) ==
    BitOr(value, ShlT(bits, bit_index_in_value, t))

\* A set that forgets to clear the bits it writes: only the |= is left
store_bits_no_clear(data_byte, bit_offset, mask, bits) ==
    BitOr(data_byte, Shl8(bits, bit_offset))

\* A set that assigns the whole byte: *data_byte = bits << bit_offset
store_bits_whole_byte(data_byte, bit_offset, mask, bits) == Shl8(bits, bit_offset)

\* *data_byte &= !(mask << bit_offset); *data_byte |= bits << bit_offset
store_bits(data_byte, bit_offset, mask, bits) ==
    BitOr(BitAnd(data_byte, Not8(Shl8(mask, bit_offset))), Shl8(bits, bit_offset))

\* One iteration of a loop, as it was when the byte was accessed: the locals
\* of the iteration, and the bits taken from the byte (get) or from the value
\* (set, value & value_mask before u8::try_from)
Step(byte_index, bit_offset, bits_in_this_byte, bit_index_in_value, bits) ==
    [byte_index |-> byte_index, bit_offset |-> bit_offset,
     bits_in_this_byte |-> bits_in_this_byte,
     bit_index_in_value |-> bit_index_in_value, bits |-> bits]

\* The byte indexes of a sequence of iterations
ByteIndexes(steps) == [i \in 1..Len(steps) |-> steps[i].byte_index]

RECURSIVE BGetLoop(_, _, _, _, _, _)
\* The loop of the generated get.  Returns the value, the panic if the index
\* data_storage[byte_index] was out of range ("" if none), the byte indexes
\* read so far and the iterations made so far.
BGetLoop(data_storage, BITS, bit_index_in_storage, bit_index_in_value, value, steps) ==
    LET byte_index == bit_index_in_storage \div 8
        bit_offset == bit_index_in_storage % 8
        bits_in_this_byte == Min(8 - bit_offset, BITS - bit_index_in_value)
        data_byte_mask == chunk_mask(bits_in_this_byte)
    IN  IF byte_index >= Len(data_storage)
        THEN [panic |-> IndexOutOfBounds, value |-> value,
              touched |-> ByteIndexes(steps), steps |-> steps]
        ELSE
          LET data_byte == data_storage[byte_index + 1]
              bits == extract_bits(data_byte, bit_offset, data_byte_mask)
              value2 == merge_bits(value, bits, bit_index_in_value,
                                   get_primitive_type(BITS))
              biv2 == bit_index_in_value + bits_in_this_byte
              steps2 == Append(steps, Step(byte_index, bit_offset, bits_in_this_byte,
                                           bit_index_in_value, bits))
          IN  IF biv2 = BITS
              THEN [panic |-> "", value |-> value2,
                    touched |-> ByteIndexes(steps2), steps |-> steps2]
              ELSE BGetLoop(data_storage, BITS,
                            bit_index_in_storage + bits_in_this_byte,
                            biv2, value2, steps2)

RECURSIVE Iterations(_, _, _)
\* The iterations of the loop of get and of set on a slice that is long
\* enough, without the bits moved: the byte index, the bit offset and the
\* number of bits of each.  None of them depends on the bytes or on the value.
Iterations(BITS, bit_index_in_storage, bit_index_in_value) ==
    LET byte_index == bit_index_in_storage \div 8
        bit_offset == bit_index_in_storage % 8
        bits_in_this_byte == Min(8 - bit_offset, BITS - bit_index_in_value)
        biv2 == bit_index_in_value + bits_in_this_byte
        step == Step(byte_index, bit_offset, bits_in_this_byte, bit_index_in_value, 0)
    IN  IF biv2 = BITS THEN <<step>>
        ELSE <<step>> \o Iterations(BITS, bit_index_in_storage + bits_in_this_byte, biv2)

\* fn get(data_storage: &[u8], bit_index: usize) -> Self::GetType
BGet(data_storage, BITS, bit_index) ==
    BGetLoop(data_storage, BITS, bit_index, 0, 0, <<>>)

\* A set that takes the whole low byte of the value: value as u8
value_bits_unmasked(value, value_mask) == value % 256

\* u8::try_from(value & value_mask): the low bits_in_this_byte bits of value
value_bits(value, value_mask) == BitAnd(value, value_mask)

RECURSIVE BSetLoop(_, _, _, _, _, _)
\* The loop of the generated set.  Returns the storage as the loop left it,
\* the panic if the index data_storage[byte_index] was out of range ("" if
\* none), the byte indexes written so far and the iterations made so far.
BSetLoop(data_storage, BITS, bit_index_in_storage, bit_index_in_value, value, steps) ==
    LET byte_index == bit_index_in_storage \div 8
        bit_offset == bit_index_in_storage % 8
        bits_in_this_byte == Min(8 - bit_offset, BITS - bit_index_in_value)
        mask == chunk_mask(bits_in_this_byte)
        value_mask == mask
        bits == value_bits(value, value_mask)
    IN  IF byte_index >= Len(data_storage)
        THEN [panic |-> IndexOutOfBounds, data |-> data_storage,
              touched |-> ByteIndexes(steps), steps |-> steps]
        ELSE
          LET data_byte == data_storage[byte_index + 1]
              stored == store_bits(data_byte, bit_offset, mask, bits)
              storage2 == [data_storage EXCEPT ![byte_index + 1] = stored]
              biv2 == bit_index_in_value + bits_in_this_byte
              steps2 == Append(steps, Step(byte_index, bit_offset, bits_in_this_byte,
                                           bit_index_in_value, bits))
          IN  IF biv2 = BITS
              THEN [panic |-> "", data |-> storage2,
                    touched |-> ByteIndexes(steps2), steps |-> steps2]
              ELSE BSetLoop(storage2, BITS,
                            bit_index_in_storage + bits_in_this_byte,
                            biv2, Shr(value, bits_in_this_byte), steps2)

RECURSIVE ReverseBytes(_, _)
\* The n low bytes of value in the opposite order
ReverseBytes(value, n) ==
    IF n = 0 THEN 0
    ELSE ((value % 256) * Pow2(8 * (n - 1))) + ReverseBytes(value \div 256, n - 1)

\* A set that stores the most significant byte of a whole-byte value first
BSet_most_significant_first(data_storage, BITS, bit_index, value) ==
    BSetLoop(data_storage, BITS, bit_index, 0,
             IF BITS % 8 = 0 THEN ReverseBytes(value, BITS \div 8) ELSE value, <<>>)

\* A set that clamps the field to the end of the slice instead of indexing
\* past it
BSet_clamped(data_storage, BITS, bit_index, value) ==
    BSetLoop(data_storage, Min(BITS, (8 * Len(data_storage)) - bit_index),
             bit_index, 0, value, <<>>)

\* fn set(data_storage: &mut [u8], bit_index: usize, mut value: Self::SetType)
BSet(data_storage, BITS, bit_index, value) ==
    BSetLoop(data_storage, BITS, bit_index, 0, value, <<>>)

\* ------------------------------------------------- impl Specifier for bool
\* fn get: (data_byte >> bit_offset) & 1 != 0
BoolGet(data_storage, bit_index) ==
    LET byte_offset == bit_index \div 8
        bit_offset == bit_index % 8
    IN  IF byte_offset >= Len(data_storage)
        THEN [panic |-> IndexOutOfBounds, value |-> FALSE, touched |-> <<>>]
        ELSE
          LET data_byte == data_storage[byte_offset + 1]
              bit == BitAnd(Shr(data_byte, bit_offset), 1)
          IN  [panic |-> "", value |-> (bit # 0), touched |-> <<byte_offset>>]

\* u8::from(bool)
U8FromBool(b) == IF b THEN 1 ELSE 0

\* A set that assigns the whole byte: *data_byte = u8::from(value) << bit_offset
BoolSet_whole_byte(data_storage, bit_index, value) ==
    LET byte_offset == bit_index \div 8
        bit_offset == bit_index % 8
    IN  IF byte_offset >= Len(data_storage)
        THEN [panic |-> IndexOutOfBounds, data |-> data_storage, touched |-> <<>>]
        ELSE [panic |-> "",
              data |-> [data_storage EXCEPT
                          ![byte_offset + 1] = Shl8(U8FromBool(value), bit_offset)],
              touched |-> <<byte_offset>>]

\* fn set: clears the bit, then ors u8::from(value) << bit_offset
BoolSet(data_storage, bit_index, value) ==
    LET byte_offset == bit_index \div 8
        bit_offset == bit_index % 8
    IN  IF byte_offset >= Len(data_storage)
        THEN [panic |-> IndexOutOfBounds, data |-> data_storage, touched |-> <<>>]
        ELSE
          LET data_byte == data_storage[byte_offset + 1]
              mask == Not8(Shl8(1, bit_offset))
              stored == BitOr(BitAnd(data_byte, mask), Shl8(U8FromBool(value), bit_offset))
          IN  [panic |-> "",
               data |-> [data_storage EXCEPT ![byte_offset + 1] = stored],
               touched |-> <<byte_offset>>]

\* ------------------------------------------------------- enum specifiers
\* Option<u8>
NoneU8 == [some |-> FALSE, v |-> 0]
SomeU8(n) == [some |-> TRUE, v |-> n]

\* A test that lets every variant count but 0 through
is_power_of_two_or_more(n) == n > 0

\* usize::is_power_of_two
is_power_of_two(n) == \E e \in 0..n : Pow2(e) = n

\* A logarithm that counts the bits of n: one more than ilog2
ilog2_bit_length(n) == CHOOSE e \in 1..(n + 1) : Pow2(e) > n /\ Pow2(e - 1) <= n

RECURSIVE ilog2(_)
\* usize::ilog2, for n >= 1
ilog2(n) == IF n <= 1 THEN 0 ELSE 1 + ilog2(n \div 2)

\* `path as <primitive type of t bits>`: a truncating cast of the discriminant
value_as_integer(d, t) == IF t >= 31 THEN d ELSE d % Pow2(t)

\* An assertion that lets the bound itself through: <= instead of <
range_check_inclusive(d, max_representable_value) ==
    d >= 0 /\ d <= max_representable_value

\* An assertion on the signed discriminant: a negative one is below the bound
range_check_signed(d, max_representable_value) == d < max_representable_value

\* The const assertion of a variant: (path as u128) < max_representable_value.
\* A negative discriminant casts to a value of at least 2^127.
range_check(d, max_representable_value) ==
    d >= 0 /\ d < max_representable_value

\* ensure_enum_size_matches_documented_bits
ensure_enum_size_matches_documented_bits(actual_bits, documented_bits) ==
    (~documented_bits.some) \/ actual_bits = documented_bits.v

\* A specifier: one of the generated B<BITS>, bool, or a derived enum with
\* the discriminants of its variants in declaration order.
BSpecifier(n) == [kind |-> "B", BITS |-> n, open |-> FALSE, variants |-> <<>>]
BoolSpecifier == [kind |-> "bool", BITS |-> 1, open |-> FALSE, variants |-> <<>>]

\* Where a compile error points: the item's ident, one of its attributes, a
\* field or a variant (index counts from 1; 0 for the item itself).
At(kind, index) == [kind |-> kind, index |-> index]

CompileError(msg, at) == [msg |-> msg, at |-> at]

\* The message of the const assertion of a variant
RangeMessage == "expected variant value to fit inside bit range"

\* get_range_checks: the const assertions that fail, each at its variant
get_range_checks(variants, max_representable_value) ==
    {CompileError(RangeMessage, At("variant", i)) :
        i \in {j \in 1..Len(variants) : ~range_check(variants[j], max_representable_value)}}

\* The panic of an arithmetic overflow in a build with overflow checks
MultiplyOverflow == "attempt to multiply with overflow"

\* 2u128.pow(exp).  2^128 does not fit u128: the multiplication panics in a
\* build with overflow checks and wraps to 0 in a build without them.  A
\* bound of 2^31 and more is modelled by 2^30: every discriminant of the
\* model is below it.
pow_u128(exp, overflow_checks) ==
    IF exp >= 128
    THEN IF overflow_checks THEN [panic |-> MultiplyOverflow, value |-> 0]
         ELSE [panic |-> "", value |-> 0]
    ELSE [panic |-> "", value |-> Pow2(Min(exp, 30))]

\* parse_enum and the const items it emits: the enum item (its variants'
\* discriminants, its set_bits and bits attributes) either compiles to a
\* specifier or is rejected.  `errors` are the compile errors with the place
\* they point at, `error` is the message of the first of them.
parse_enum(item, overflow_checks) ==
    LET n == Len(item.variants)
        rejected(msg) ==
            [ok |-> FALSE, error |-> msg,
             errors |-> {CompileError(msg, At("enum", 0))}, spec |-> BoolSpecifier,
             panic |-> ""]
        compiled(bits, open, max_representable_value) ==
            LET range_errors == get_range_checks(item.variants, max_representable_value)
                nonzero_errors ==
                    IF bits = 0
                    THEN {CompileError("bits should be greater than 0", At("enum", 0))}
                    ELSE {}
            IN  IF range_errors # {}
                THEN [ok |-> FALSE, error |-> RangeMessage,
                      errors |-> range_errors \cup nonzero_errors, spec |-> BoolSpecifier,
                      panic |-> ""]
                ELSE IF nonzero_errors # {}
                THEN [ok |-> FALSE, error |-> "bits should be greater than 0",
                      errors |-> nonzero_errors, spec |-> BoolSpecifier, panic |-> ""]
                ELSE [ok |-> TRUE, error |-> "", errors |-> {}, panic |-> "",
                      spec |-> [kind |-> "enum", BITS |-> bits, open |-> open,
                                variants |-> item.variants]]
    IN  IF item.set_bits.some
        THEN LET bits == item.set_bits.v
                 max_representable_value == pow_u128(bits, overflow_checks)
             IN  IF bits > MAX_BITS
                 THEN rejected("expected no more than 128 bits")
                 ELSE IF ~ensure_enum_size_matches_documented_bits(bits, item.documented_bits)
                 THEN rejected("expected enum size to be equal to the value of the bits attribute")
                 ELSE IF max_representable_value.panic # ""
                 THEN [rejected("proc-macro derive panicked") EXCEPT
                          !.panic = max_representable_value.panic]
                 ELSE compiled(bits, TRUE, max_representable_value.value)
        ELSE IF ~is_power_of_two(n)
             THEN rejected("expected a number of variants which is a power of 2")
             ELSE LET bits == ilog2(n)
                      max_representable_value == n
                  IN  IF ~ensure_enum_size_matches_documented_bits(bits, item.documented_bits)
                      THEN rejected("expected enum size to be equal to the value of the bits attribute")
                      ELSE compiled(bits, FALSE, max_representable_value)

\* The panic of unreachable!("enum variants should be exhaustive")
Unreachable == "enum variants should be exhaustive"

\* A match on the position of the variant in the enum instead of its
\* discriminant
get_match_body_by_position(spec, v) ==
    IF v < Len(spec.variants)
    THEN [panic |-> "",
          value |-> [tag |-> IF spec.open THEN "Ok" ELSE "variant", variant |-> v + 1, raw |-> 0]]
    ELSE IF spec.open
    THEN [panic |-> "", value |-> [tag |-> "Err", variant |-> 0, raw |-> v]]
    ELSE [panic |-> Unreachable, value |-> [tag |-> "none", variant |-> 0, raw |-> v]]

\* The match of the generated get: the first arm `v if v == path as T` that
\* matches decides; the fallback arm is Err(Unrecognized::new(v)) for an enum
\* with set_bits and unreachable!() otherwise.
get_match_body(spec, v) ==
    LET t == get_primitive_type(spec.BITS)
        hits == {i \in 1..Len(spec.variants) : v = value_as_integer(spec.variants[i], t)}
        first == CHOOSE i \in hits : \A j \in hits : i <= j
    IN  IF hits # {}
        THEN [panic |-> "",
              value |-> [tag |-> IF spec.open THEN "Ok" ELSE "variant", variant |-> first, raw |-> 0]]
        ELSE IF spec.open
        THEN [panic |-> "", value |-> [tag |-> "Err", variant |-> 0, raw |-> v]]
        ELSE [panic |-> Unreachable, value |-> [tag |-> "none", variant |-> 0, raw |-> v]]

\* Generated get of an enum specifier: B<bits>::get, then the match.
EnumGet(spec, data_storage, bit_index) ==
    LET r == BGet(data_storage, spec.BITS, bit_index)
        m == get_match_body(spec, r.value)
    IN  IF r.panic # ""
        THEN [panic |-> r.panic, value |-> [tag |-> "none", variant |-> 0, raw |-> 0],
              touched |-> r.touched]
        ELSE [panic |-> m.panic, value |-> m.value, touched |-> r.touched]

\* A set that writes the position of the variant instead of its discriminant
EnumSet_by_position(spec, data_storage, bit_index, variant) ==
    BSet(data_storage, spec.BITS, bit_index, variant - 1)

\* Generated set of an enum specifier: the match `path => path as T`, then
\* B<bits>::set.  `variant` is the position of the variant in the enum.
EnumSet(spec, data_storage, bit_index, variant) ==
    BSet(data_storage, spec.BITS, bit_index,
         value_as_integer(spec.variants[variant], get_primitive_type(spec.BITS)))

\* Dispatch on the specifier type: <Ty as Specifier>::get
SpecifierGet(spec, data_storage, bit_index) ==
    IF spec.kind = "B" THEN BGet(data_storage, spec.BITS, bit_index)
    ELSE IF spec.kind = "bool" THEN BoolGet(data_storage, bit_index)
    ELSE EnumGet(spec, data_storage, bit_index)

\* Dispatch on the specifier type: <Ty as Specifier>::set
SpecifierSet(spec, data_storage, bit_index, value) ==
    IF spec.kind = "B" THEN BSet(data_storage, spec.BITS, bit_index, value)
    ELSE IF spec.kind = "bool" THEN BoolSet(data_storage, bit_index, value)
    ELSE EnumSet(spec, data_storage, bit_index, value)

\* ----------------------------------------------------- the bitfield struct
RECURSIVE total_bits(_)
\* The token stream `0 + A::BITS + B::BITS ...` over all the fields
total_bits(specs) ==
    IF specs = <<>> THEN 0
    ELSE total_bits(SubSeq(specs, 1, Len(specs) - 1)) + specs[Len(specs)].BITS

\* new(): [0; (total_bits)/8]
new(specs) == [i \in 1..(total_bits(specs) \div 8) |-> 0]

\* ---------------------------------------------------- the macros' parsing
\* An attribute #[name = value] of an item, a field or an enum
Attr(name, value) == [name |-> name, value |-> value]

is_bits_attribute(attr) == attr.name = "bits"

is_set_bits_attribute(attr) == attr.name = "set_bits"

\* parse_attribute_as_u8: the literal must fit u8 and be at most MAX_BITS
parse_attribute_as_u8(attr) ==
    IF attr.value > 255 \/ attr.value > MAX_BITS
    THEN [ok |-> FALSE, error |-> "expected no more than 128 bits", v |-> 0]
    ELSE [ok |-> TRUE, error |-> "", v |-> attr.value]

\* parse_attribute_as_usize: every literal of the model fits usize
parse_attribute_as_usize(attr) == [ok |-> TRUE, error |-> "", v |-> attr.value]

RECURSIVE parse_enum_attributes_from(_, _, _, _)
\* The loop of parse_enum_attributes from attribute i on
parse_enum_attributes_from(attrs, i, documented_bits, set_bits) ==
    IF i > Len(attrs)
    THEN [ok |-> TRUE, errors |-> {}, documented_bits |-> documented_bits,
          set_bits |-> set_bits]
    ELSE LET attr == attrs[i]
             failed(msg) ==
                 [ok |-> FALSE, errors |-> {CompileError(msg, At("attribute", i))},
                  documented_bits |-> documented_bits, set_bits |-> set_bits]
             parsed == parse_attribute_as_u8(attr)
         IN  IF is_bits_attribute(attr)
             THEN IF documented_bits.some
                  THEN failed("multiple bits attributes on the same enum")
                  ELSE IF ~parsed.ok THEN failed(parsed.error)
                  ELSE parse_enum_attributes_from(attrs, i + 1, SomeU8(parsed.v), set_bits)
             ELSE IF is_set_bits_attribute(attr)
             THEN IF set_bits.some
                  THEN failed("multiple set_bits attributes on the same enum")
                  ELSE IF ~parsed.ok THEN failed(parsed.error)
                  ELSE parse_enum_attributes_from(attrs, i + 1, documented_bits, SomeU8(parsed.v))
             ELSE parse_enum_attributes_from(attrs, i + 1, documented_bits, set_bits)

parse_enum_attributes(attrs) == parse_enum_attributes_from(attrs, 1, NoneU8, NoneU8)

\* implement_specifier: #[derive(BitfieldSpecifier)] on the enum `item`, with
\* the const items of the expansion evaluated
implement_specifier(item, overflow_checks) ==
    LET parsed_attributes == parse_enum_attributes(item.attrs)
    IN  IF ~parsed_attributes.ok
        THEN [ok |-> FALSE, error |-> "", errors |-> parsed_attributes.errors,
              spec |-> BoolSpecifier, panic |-> ""]
        ELSE parse_enum([variants |-> item.variants,
                         set_bits |-> parsed_attributes.set_bits,
                         documented_bits |-> parsed_attributes.documented_bits],
                        overflow_checks)

RECURSIVE get_field_size_check_from(_, _, _, _)
\* The loop of get_field_size_check over the attributes of field k, from
\* attribute i on; check is the documented size found so far.
get_field_size_check_from(field_attrs, k, i, check) ==
    IF i > Len(field_attrs)
    THEN [ok |-> TRUE, errors |-> {}, check |-> check]
    ELSE LET attr == field_attrs[i]
             failed(msg) ==
                 [ok |-> FALSE, errors |-> {CompileError(msg, At("field attribute", k))},
                  check |-> check]
             parsed == parse_attribute_as_u8(attr)
         IN  IF is_bits_attribute(attr)
             THEN IF check.some
                  THEN failed("multiple bits attributes on the same field")
                  ELSE IF ~parsed.ok THEN failed(parsed.error)
                  ELSE get_field_size_check_from(field_attrs, k, i + 1, SomeU8(parsed.v))
             ELSE get_field_size_check_from(field_attrs, k, i + 1, check)

get_field_size_check(field_attrs, k) ==
    get_field_size_check_from(field_attrs, k, 1, NoneU8)

RECURSIVE get_intermediate_token_streams_from(_, _, _)
\* The loop of get_intermediate_token_streams from field k on.  Returns the
\* documented size of each field (field_size_checks) or the error of the
\* first attribute that does not parse.
get_intermediate_token_streams_from(item_fields, k, field_size_checks) ==
    IF k > Len(item_fields)
    THEN [ok |-> TRUE, errors |-> {}, field_size_checks |-> field_size_checks]
    ELSE LET c == get_field_size_check(item_fields[k].attrs, k)
         IN  IF ~c.ok
             THEN [ok |-> FALSE, errors |-> c.errors, field_size_checks |-> field_size_checks]
             ELSE get_intermediate_token_streams_from(
                      item_fields, k + 1, Append(field_size_checks, c.check))

get_intermediate_token_streams(item_fields) ==
    get_intermediate_token_streams_from(item_fields, 1, <<>>)

RECURSIVE parse_struct_attributes_from(_, _, _)
\* The loop of parse_struct_attributes from attribute i on
parse_struct_attributes_from(attrs, i, documented_size_check) ==
    IF i > Len(attrs)
    THEN [ok |-> TRUE, errors |-> {}, documented_size_check |-> documented_size_check]
    ELSE LET attr == attrs[i]
             parsed == parse_attribute_as_usize(attr)
         IN  IF is_bits_attribute(attr)
             THEN IF documented_size_check.some
                  THEN [ok |-> FALSE,
                        errors |-> {CompileError("multiple bits attributes on the same struct",
                                                 At("attribute", i))},
                        documented_size_check |-> documented_size_check]
                  ELSE parse_struct_attributes_from(attrs, i + 1, SomeU8(parsed.v))
             ELSE parse_struct_attributes_from(attrs, i + 1, documented_size_check)

parse_struct_attributes(attrs) == parse_struct_attributes_from(attrs, 1, NoneU8)

\* The specifier types of the fields of a struct item, in declaration order
field_types(item) == [k \in 1..Len(item.fields) |-> item.fields[k].ty]

\* A const assertion that rounds the size down: (total_bits)/8*8 is accepted
multiple_of_8_size_check_rounding(specs) == ((total_bits(specs) \div 8) * 8) % 8 = 0

\* The const assertion (total_bits).is_multiple_of(8)
multiple_of_8_size_check(specs) == total_bits(specs) % 8 = 0

\* A field size assertion that lets a smaller documented size through
field_size_check_at_least(spec, bits) == spec.BITS >= bits

\* The const assertion <Ty as Specifier>::BITS.get() == bits of a field
field_size_check(spec, bits) == spec.BITS = bits

\* The const assertion (total_bits) == bits of a struct
documented_size_check(specs, bits) == total_bits(specs) = bits

\* parse_struct_item: #[bitfield] on the struct `item`, with the const items
\* of the expansion evaluated.  An error of the macro itself is the only
\* error; otherwise every const assertion that fails is one.
parse_struct_item(item) ==
    LET specs == field_types(item)
        intermediate == get_intermediate_token_streams(item.fields)
        parsed_attributes == parse_struct_attributes(item.attrs)
        rejected(errors) == [ok |-> FALSE, errors |-> errors, fields |-> <<>>]
        const_errors ==
            (IF parsed_attributes.documented_size_check.some
                  /\ ~documented_size_check(specs, parsed_attributes.documented_size_check.v)
             THEN {CompileError(
                      "expected struct size to be equal to the value of the bits attribute",
                      At("struct", 0))}
             ELSE {})
            \cup (IF ~multiple_of_8_size_check(specs)
                  THEN {CompileError("expected struct size to be a multiple of 8 bits",
                                     At("struct", 0))}
                  ELSE {})
            \cup {CompileError(
                      "expected field size to be equal to the value of the bits attribute",
                      At("field", k)) :
                    k \in {j \in 1..Len(specs) :
                             /\ intermediate.field_size_checks[j].some
                             /\ ~field_size_check(specs[j],
                                                  intermediate.field_size_checks[j].v)}}
    IN  IF item.shape = "unit"
        THEN rejected({CompileError("expected struct to have at least one field",
                                    At("struct", 0))})
        ELSE IF ~intermediate.ok THEN rejected(intermediate.errors)
        ELSE IF ~parsed_attributes.ok THEN rejected(parsed_attributes.errors)
        ELSE IF const_errors # {} THEN rejected(const_errors)
        ELSE [ok |-> TRUE, errors |-> {}, fields |-> specs]

\* ===================================================== the sorted crate
\* A String is modelled by a natural number, its rank in the alphabetical
\* order of the names and string literals of the input (0 is the empty
\* string); a Vec<String>, Vec<u8> or CString is a sequence of naturals.

\* ---------------------------------------------------- SortableItemValueEnum
Value(type, n, segs) == [type |-> type, n |-> n, segs |-> segs]
SignedInt(n) == Value("SignedInt", n, <<>>)
UnsignedInt(n) == Value("UnsignedInt", n, <<>>)
Float(n) == Value("Float", n, <<>>)
StringSegments(segs) == Value("StringSegments", 0, segs)
ByteString(bytes) == Value("ByteString", 0, bytes)
CString(bytes) == Value("CString", 0, bytes)
Wildcard == Value("Wildcard", 0, <<>>)

\* SortableItemValueEnum::new_speculative: StringSegments(Vec::new())
new_speculative_value == StringSegments(<<>>)

\* ------------------------------------------------------------ SortableItem
new_with_value(value, token_stream) ==
    [wild |-> FALSE, n |-> value.n, segs |-> value.segs, token_stream |-> token_stream]

new_with_wildcard(token_stream) ==
    [wild |-> TRUE, n |-> 0, segs |-> <<>>, token_stream |-> token_stream]

RECURSIVE LexCmp(_, _)
\* Ord for Vec<T>: lexicographic, a proper prefix is smaller.  -1, 0 or 1.
LexCmp(a, b) ==
    IF a = <<>> /\ b = <<>> THEN 0
    ELSE IF a = <<>> THEN -1
    ELSE IF b = <<>> THEN 1
    ELSE IF Head(a) < Head(b) THEN -1
    ELSE IF Head(a) > Head(b) THEN 1
    ELSE LexCmp(Tail(a), Tail(b))

\* A comparison that orders a wildcard below every value
partial_cmp_wildcard_least(a, b, segmented) ==
    IF a.wild /\ b.wild THEN 0
    ELSE IF a.wild THEN -1
    ELSE IF b.wild THEN 1
    ELSE IF segmented THEN LexCmp(a.segs, b.segs)
    ELSE IF a.n < b.n THEN -1 ELSE IF a.n > b.n THEN 1 ELSE 0

\* PartialOrd for SortableItem<T>: a wildcard is greater than every value and
\* equal to a wildcard; values compare as T does.  `segmented` tells whether
\* T is a vector (StringSegments, ByteString, CString) or a number.
partial_cmp(a, b, segmented) ==
    IF a.wild /\ b.wild THEN 0
    ELSE IF a.wild THEN 1
    ELSE IF b.wild THEN -1
    ELSE IF segmented THEN LexCmp(a.segs, b.segs)
    ELSE IF a.n < b.n THEN -1 ELSE IF a.n > b.n THEN 1 ELSE 0

\* ----------------------------------------------------------- SortableItems
Items(type, items) == [type |-> type, items |-> items]

\* The container type that holds values of the type of `value`
ItemsTypeOf(value) ==
    IF value.type = "SignedInt" THEN "SignedInts"
    ELSE IF value.type = "UnsignedInt" THEN "UnsignedInts"
    ELSE IF value.type = "Float" THEN "Floats"
    ELSE IF value.type = "StringSegments" THEN "StringSegments"
    ELSE IF value.type = "ByteString" THEN "ByteStrings"
    ELSE IF value.type = "CString" THEN "CStrings"
    ELSE "Wildcards"

Segmented(type) == type \in {"StringSegments", "ByteStrings", "CStrings"}

\* SortableItems::new_speculative: StringSegments(Vec::new())
new_speculative == Items("StringSegments", <<>>)

\* No tokens: the `other` of an error that names one pattern only
NoTokens == [kind |-> "none"]

SortedError(msg, token_stream, other) ==
    [msg |-> msg, item |-> token_stream, other |-> other]

generate_range_error(token_stream) ==
    SortedError("value does not fit into the range inferred from the previous patterns",
                token_stream, NoTokens)

generate_comparison_error(token_stream) ==
    SortedError("comparison between this pattern and the previously encountered patterns is unsupported by #[sorted]",
                token_stream, NoTokens)

generate_generic_unsupported_error(token_stream) ==
    SortedError("unsupported by #[sorted]", token_stream, NoTokens)

generate_qself_unsupported_error(token_stream) ==
    SortedError("qualified paths are unsupported by #[sorted]", token_stream, NoTokens)

NoError == SortedError("", NoTokens, NoTokens)

\* SortableItems::try_append and the try_append_to_* it dispatches to.
\* Returns the container after the append, or the error.
try_append(c, value, token_stream) ==
    LET ok(c2) == [ok |-> TRUE, err |-> NoError, c |-> c2]
        failed(e) == [ok |-> FALSE, err |-> e, c |-> c]
        push_value == ok(Items(c.type, Append(c.items, new_with_value(value, token_stream))))
        push_wildcard == ok(Items(c.type, Append(c.items, new_with_wildcard(token_stream))))
        fresh == ok(Items(ItemsTypeOf(value), <<new_with_value(value, token_stream)>>))
    IN  IF c.type = "SignedInts"
        THEN IF value.type = "SignedInt" THEN push_value
             ELSE IF value.type = "UnsignedInt"
             THEN IF \E i \in 1..Len(c.items) : ~c.items[i].wild /\ c.items[i].n < 0
                  THEN failed(generate_range_error(token_stream))
                  ELSE ok(Items("UnsignedInts",
                                Append(c.items, new_with_value(value, token_stream))))
             ELSE IF value.type = "Wildcard" THEN push_wildcard
             ELSE failed(generate_comparison_error(token_stream))
        ELSE IF c.type = "UnsignedInts"
        THEN IF value.type = "SignedInt"
             THEN IF value.n < 0 THEN failed(generate_range_error(token_stream))
                  ELSE push_value
             ELSE IF value.type = "UnsignedInt" THEN push_value
             ELSE IF value.type = "Wildcard" THEN push_wildcard
             ELSE failed(generate_comparison_error(token_stream))
        ELSE IF c.type = "StringSegments"
        THEN IF value.type = "StringSegments" THEN push_value
             ELSE IF value.type = "Wildcard"
             THEN IF c.items = <<>>
                  THEN ok(Items("Wildcards", <<new_with_wildcard(token_stream)>>))
                  ELSE push_wildcard
             ELSE IF c.items # <<>> THEN failed(generate_comparison_error(token_stream))
             ELSE fresh
        ELSE IF c.type = "Wildcards"
        THEN IF value.type = "Wildcard" THEN push_wildcard
             ELSE ok(Items(ItemsTypeOf(value),
                           Append(c.items, new_with_value(value, token_stream))))
        ELSE \* Floats, ByteStrings, CStrings
             IF ItemsTypeOf(value) = c.type THEN push_value
             ELSE IF value.type = "Wildcard" THEN push_wildcard
             ELSE failed(generate_comparison_error(token_stream))

RECURSIVE partition_point(_, _, _, _, _)
\* slice::partition_point by binary search over items[lo+1..hi] (1-based):
\* the number of leading items with checked_item <= x
partition_point(items, x, segmented, lo, hi) ==
    IF lo >= hi THEN lo
    ELSE LET mid == lo + ((hi - lo) \div 2)
         IN  IF partial_cmp(items[mid + 1], x, segmented) <= 0
             THEN partition_point(items, x, segmented, mid + 1, hi)
             ELSE partition_point(items, x, segmented, lo, mid)

\* An error message that names the predecessor of the unsorted item
blame_predecessor(items, index, segmented) == index - 1

\* The position (0-based) of the item the error says x = items[index] should
\* sort before: sortable_items[..index].partition_point(|c| c <= item)
blame(items, index, segmented) ==
    partition_point(items, items[index + 1], segmented, 0, index)

RECURSIVE look_for_unsorted_items_from(_, _, _)
\* The loop of look_for_unsorted_items from the 0-based index on
look_for_unsorted_items_from(items, index, segmented) ==
    IF index >= Len(items) THEN [ok |-> TRUE, err |-> NoError]
    ELSE IF partial_cmp(items[index], items[index + 1], segmented) > 0
    THEN [ok |-> FALSE,
          err |-> SortedError("should sort before", items[index + 1].token_stream,
                              items[blame(items, index, segmented) + 1].token_stream)]
    ELSE look_for_unsorted_items_from(items, index + 1, segmented)

\* SortableItems::look_for_unsorted_items
look_for_unsorted_items(c) ==
    IF c.type = "Wildcards" THEN [ok |-> TRUE, err |-> NoError]
    ELSE look_for_unsorted_items_from(c.items, 1, Segmented(c.type))

\* ----------------------------------------------------------------- syn::Pat
\* A pattern: its kind, what a literal, an identifier or a path holds, its
\* flags and its sub-patterns (the cases of an or-pattern, the fields of a
\* struct, the elements of a tuple, the pattern after @ or inside parentheses).
Pat(kind, lit, n, segs, flags, subs) ==
    [kind |-> kind, lit |-> lit, n |-> n, segs |-> segs, flags |-> flags, subs |-> subs,
     span |-> <<>>]

RECURSIVE Spanned(_, _)
\* The pattern as the parser yields it: every pattern in it carries its span,
\* here the path of positions that leads to it
Spanned(pat, span) ==
    [pat EXCEPT !.span = span,
                !.subs = [i \in 1..Len(pat.subs) |-> Spanned(pat.subs[i], Append(span, i))]]

PatWild == Pat("Wild", "", 0, <<>>, {}, <<>>)
\* A literal: lit is Int, Bool, Byte, Float, Str, Char, ByteStr, CStr
PatLit(lit, n) == Pat("Lit", lit, n, <<>>, {}, <<>>)
PatInt(n) == PatLit("Int", n)
\* An identifier pattern [ref] [mut] name [@ subpat]; flags within {"ref", "mut"}
PatIdent(name, flags, subpat) == Pat("Ident", "", name, <<>>, flags, subpat)
PatOr(cases) == Pat("Or", "", 0, <<>>, {}, cases)
PatParen(pat) == Pat("Paren", "", 0, <<>>, {}, <<pat>>)
\* A path a::b; flags within {"leading_colon", "qself"}
PatPath(segs, flags) == Pat("Path", "", 0, segs, flags, <<>>)
PatStruct(segs, flags, field_pats) == Pat("Struct", "", 0, segs, flags, field_pats)
PatTupleStruct(segs, flags, elems) == Pat("TupleStruct", "", 0, segs, flags, elems)
PatTuple(elems) == Pat("Tuple", "", 0, <<>>, {}, elems)
PatSlice(elems) == Pat("Slice", "", 0, <<>>, {}, elems)
PatReference(pat) == Pat("Reference", "", 0, <<>>, {}, <<pat>>)
PatType(pat) == Pat("Type", "", 0, <<>>, {}, <<pat>>)
\* Any other pattern (a range, a macro, ...)
PatRest == Pat("Rest", "", 0, <<>>, {}, <<>>)

\* From<&Ident>: vec![ident.to_string()]
value_of_ident(name) == StringSegments(<<name>>)

\* From<&Path>: the idents of the segments, after an empty string if the path
\* has a leading colon
value_of_path(pat) ==
    StringSegments((IF "leading_colon" \in pat.flags THEN <<0>> ELSE <<>>) \o pat.segs)

\* ------------------------------------------------ look_for_unsorted_match_arms
\* FrameOperation
FrameOp(op, arm_index, count, storage_index, correct, pat) ==
    [op |-> op, arm_index |-> arm_index, count |-> count, storage_index |-> storage_index,
     correct |-> correct, pat |-> pat]

NoIndex == [some |-> FALSE, v |-> 0]
SomeIndex(i) == [some |-> TRUE, v |-> i]

ParseArm(arm_index) == FrameOp("ParseArm", arm_index, 0, 0, NoIndex, PatRest)
AppendSortableItemInMatchArms ==
    FrameOp("AppendSortableItemInMatchArms", 0, 0, 0, NoIndex, PatRest)
AppendSortableItemInOrPatterns(count) ==
    FrameOp("AppendSortableItemInOrPatterns", 0, count, 0, NoIndex, PatRest)
AppendSortableItemInOrPatternsAndCorrectStorageStack(count, storage_index_to_correct) ==
    FrameOp("AppendSortableItemInOrPatternsAndCorrectStorageStack", 0, count, 0,
            SomeIndex(storage_index_to_correct), PatRest)
ParseSubPattern(sub_pattern, storage_index, storage_index_to_correct) ==
    FrameOp("ParseSubPattern", 0, 0, storage_index, storage_index_to_correct, sub_pattern)
LookOnlyForUnsortedOrSubPatterns(sub_pattern) ==
    FrameOp("LookOnlyForUnsortedOrSubPatterns", 0, 0, 0, NoIndex, sub_pattern)

\* The tokens of the guard of an arm: `if` and the condition
GuardTokens(arm) == [kind |-> "Guard", span |-> arm.pat.span]

\* FrameStorage
FrameStorage(value, token_stream) == [value |-> value, token_stream |-> token_stream]

\* The panic of an index past the end of storage_stack
StorageIndexOutOfBounds == "storage_stack: index out of bounds"

\* The outcome of a step of the loop: "continue", "break" (leave the loop),
\* "return" (an Err) or "panic"
Outcome(next, err, m) == [next |-> next, err |-> err, m |-> m]

\* The one element of a set of one element.  Only({F(x) : x \in {e}}) is F(e)
\* with e evaluated once, whatever the number of times F uses it.
Only(S) == CHOOSE x \in S : TRUE

\* The operations `for x in xs.iter().rev() { stack.push(op(x)) }`
PushReversed(stack, xs, Op(_)) ==
    stack \o [i \in 1..Len(xs) |-> Op(xs[Len(xs) + 1 - i])]

RECURSIVE push_cases(_, _, _)
\* The loop over cases.iter().rev() of parse_or_pattern and of
\* look_only_for_unsorted_or_sub_patterns: a storage and a ParseSubPattern
\* for each case, the last case first
push_cases(m, cases, i) ==
    IF i = 0 THEN m
    ELSE LET pushed(frames) ==
                 LET storage2 == Append(frames.storage_stack,
                                        FrameStorage(new_speculative_value, cases[i]))
                     index == Len(storage2) - 1
                 IN  [frames EXCEPT !.storage_stack = storage2,
                                    !.stack = Append(frames.stack,
                                                ParseSubPattern(cases[i], index,
                                                                SomeIndex(index)))]
         IN  Only({push_cases(next, cases, i - 1) : next \in {pushed(m)}})

\* parse_lit_pattern
parse_lit_pattern(pat) ==
    IF pat.lit \in {"Str", "Char"} THEN [ok |-> TRUE, value |-> StringSegments(<<pat.n>>)]
    ELSE IF pat.lit = "ByteStr" THEN [ok |-> TRUE, value |-> ByteString(<<pat.n>>)]
    ELSE IF pat.lit = "CStr" THEN [ok |-> TRUE, value |-> CString(<<pat.n>>)]
    ELSE IF pat.lit \in {"Byte", "Bool", "Int"} THEN [ok |-> TRUE, value |-> SignedInt(pat.n)]
    ELSE IF pat.lit = "Float" THEN [ok |-> TRUE, value |-> Float(pat.n)]
    ELSE [ok |-> FALSE, value |-> new_speculative_value]

\* An or-pattern that always corrects the storage on top of the stack
parse_or_pattern_top_of_stack(m, pat, storage_index_to_correct) ==
    push_cases([m EXCEPT !.stack =
                   Append(m.stack,
                          AppendSortableItemInOrPatternsAndCorrectStorageStack(
                              Len(pat.subs), Len(m.storage_stack) - 1))],
               pat.subs, Len(pat.subs))

\* parse_or_pattern
parse_or_pattern(m, pat, storage_index_to_correct) ==
    push_cases([m EXCEPT !.stack =
                   Append(m.stack,
                          AppendSortableItemInOrPatternsAndCorrectStorageStack(
                              Len(pat.subs),
                              IF storage_index_to_correct.some
                              THEN storage_index_to_correct.v
                              ELSE Len(m.storage_stack) - 1))],
               pat.subs, Len(pat.subs))

\* parse_pattern and the parse_*_pattern functions it dispatches to
parse_pattern(m, pat, storage_index, storage_index_to_correct) ==
    LET current_storage == m.storage_stack[storage_index + 1]
        set_value(v) == [m EXCEPT !.storage_stack[storage_index + 1].value = v]
        continue(m2) == Outcome("continue", NoError, m2)
        failed(e) == Outcome("return", e, m)
    IN  IF storage_index >= Len(m.storage_stack)
        THEN Outcome("panic", NoError, m)
        ELSE IF pat.kind = "Ident"
        THEN IF pat.subs # <<>>
             THEN continue([m EXCEPT !.stack =
                              Append(m.stack, ParseSubPattern(pat.subs[1], storage_index, NoIndex))])
             ELSE IF pat.flags = {}
             THEN continue(set_value(value_of_ident(pat.n)))
             ELSE failed(SortedError(
                     "ref [mut] patterns that bind variables without @ <subpattern> are unsupported by #[sorted]",
                     current_storage.token_stream, NoTokens))
        ELSE IF pat.kind = "Lit"
        THEN IF parse_lit_pattern(pat).ok
             THEN continue(set_value(parse_lit_pattern(pat).value))
             ELSE failed(generate_generic_unsupported_error(current_storage.token_stream))
        ELSE IF pat.kind = "Or"
        THEN continue(parse_or_pattern(m, pat, storage_index_to_correct))
        ELSE IF pat.kind = "Paren"
        THEN continue([m EXCEPT !.stack =
                         Append(m.stack,
                                ParseSubPattern(pat.subs[1], storage_index,
                                                storage_index_to_correct))])
        ELSE IF pat.kind = "Path"
        THEN IF "qself" \in pat.flags
             THEN failed(generate_qself_unsupported_error(current_storage.token_stream))
             ELSE continue(set_value(value_of_path(pat)))
        ELSE IF pat.kind \in {"Struct", "TupleStruct"}
        THEN IF "qself" \in pat.flags
             THEN failed(generate_qself_unsupported_error(current_storage.token_stream))
             ELSE continue([set_value(value_of_path(pat)) EXCEPT !.stack =
                              PushReversed(m.stack, pat.subs, LookOnlyForUnsortedOrSubPatterns)])
        ELSE IF pat.kind = "Wild"
        THEN continue(set_value(Wildcard))
        ELSE failed(generate_generic_unsupported_error(current_storage.token_stream))

\* look_only_for_unsorted_or_sub_patterns
look_only_for_unsorted_or_sub_patterns(m, pat) ==
    IF pat.kind = "Ident"
    THEN IF pat.subs # <<>>
         THEN [m EXCEPT !.stack = Append(m.stack, LookOnlyForUnsortedOrSubPatterns(pat.subs[1]))]
         ELSE m
    ELSE IF pat.kind = "Or"
    THEN push_cases([m EXCEPT !.stack =
                        Append(m.stack, AppendSortableItemInOrPatterns(Len(pat.subs)))],
                    pat.subs, Len(pat.subs))
    ELSE IF pat.kind \in {"Paren", "Reference", "Type", "Slice", "Struct", "Tuple", "TupleStruct"}
    THEN [m EXCEPT !.stack = PushReversed(m.stack, pat.subs, LookOnlyForUnsortedOrSubPatterns)]
    ELSE m

RECURSIVE pop_and_append(_, _, _)
\* `for _ in 0..count { if let Some(storage) = storage_stack.pop()
\* { sortable_items.try_append(..)? } else { break } }`
pop_and_append(storage_stack, sortable_items, count) ==
    IF count = 0 \/ storage_stack = <<>>
    THEN [ok |-> TRUE, err |-> NoError, storage_stack |-> storage_stack, c |-> sortable_items]
    ELSE LET storage == storage_stack[Len(storage_stack)]
             rest == SubSeq(storage_stack, 1, Len(storage_stack) - 1)
             appended(r) ==
                 IF ~r.ok
                 THEN [ok |-> FALSE, err |-> r.err, storage_stack |-> rest,
                       c |-> sortable_items]
                 ELSE pop_and_append(rest, r.c, count - 1)
         IN  Only({appended(r) :
                      r \in {try_append(sortable_items, storage.value,
                                        storage.token_stream)}})

\* One iteration of `while let Some(operation) = stack.pop()`, the stack not
\* being empty.  m holds the stack, the storage stack, the sortable items of
\* the match arms and those of the or-patterns; arms are the arms of the match.
frame_operation(arms, m0) ==
    LET operation == m0.stack[Len(m0.stack)]
        m == [m0 EXCEPT !.stack = SubSeq(m0.stack, 1, Len(m0.stack) - 1)]
        continue(m2) == Outcome("continue", NoError, m2)
    IN  IF operation.op = "AppendSortableItemInMatchArms"
        THEN LET r == pop_and_append(m.storage_stack, m.sortable_items_in_match_arms, 1)
             IN  IF ~r.ok THEN Outcome("return", r.err, m)
                 ELSE continue([m EXCEPT !.storage_stack = r.storage_stack,
                                         !.sortable_items_in_match_arms = r.c])
        ELSE IF operation.op = "AppendSortableItemInOrPatterns"
        THEN LET r == pop_and_append(m.storage_stack, new_speculative, operation.count)
             IN  IF ~r.ok THEN Outcome("return", r.err, m)
                 ELSE continue([m EXCEPT !.storage_stack = r.storage_stack,
                                         !.sortable_items_in_or_patterns = Append(@, r.c)])
        ELSE IF operation.op = "AppendSortableItemInOrPatternsAndCorrectStorageStack"
        THEN IF m.storage_stack = <<>> THEN Outcome("break", NoError, m)
             ELSE LET first_sortable_item == m.storage_stack[Len(m.storage_stack)]
                      r == pop_and_append(m.storage_stack, new_speculative, operation.count)
                  IN  IF ~r.ok THEN Outcome("return", r.err, m)
                      ELSE IF operation.correct.v >= Len(r.storage_stack)
                      THEN Outcome("panic", NoError,
                                   [m EXCEPT !.storage_stack = r.storage_stack,
                                             !.sortable_items_in_or_patterns = Append(@, r.c)])
                      ELSE continue(
                             [m EXCEPT !.storage_stack =
                                           [r.storage_stack EXCEPT
                                              ![operation.correct.v + 1].value =
                                                  first_sortable_item.value],
                                       !.sortable_items_in_or_patterns = Append(@, r.c)])
        ELSE IF operation.op = "ParseArm"
        THEN IF operation.arm_index >= Len(arms) THEN Outcome("break", NoError, m)
             ELSE LET arm == arms[operation.arm_index + 1]
                      m2 == [m EXCEPT !.stack = m.stack \o <<ParseArm(operation.arm_index + 1),
                                                             AppendSortableItemInMatchArms>>]
                      m3 == [m2 EXCEPT !.storage_stack =
                                           Append(@, FrameStorage(new_speculative_value, arm.pat))]
                  IN  IF arm.guard
                      THEN Outcome("return",
                                   SortedError("match arms with guards are unsupported by #[sorted]",
                                               GuardTokens(arm), NoTokens), m2)
                      ELSE parse_pattern(m3, arm.pat, Len(m3.storage_stack) - 1, NoIndex)
        ELSE IF operation.op = "ParseSubPattern"
        THEN parse_pattern(m, operation.pat, operation.storage_index, operation.correct)
        ELSE continue(look_only_for_unsorted_or_sub_patterns(m, operation.pat))

RECURSIVE look_for_unsorted_or_patterns(_, _)
\* `for sortable_items in &sortable_items_in_or_patterns
\* { sortable_items.look_for_unsorted_items()? }`
look_for_unsorted_or_patterns(or_patterns, i) ==
    IF i > Len(or_patterns) THEN [ok |-> TRUE, err |-> NoError]
    ELSE IF ~look_for_unsorted_items(or_patterns[i]).ok
    THEN look_for_unsorted_items(or_patterns[i])
    ELSE look_for_unsorted_or_patterns(or_patterns, i + 1)

RECURSIVE frame_loop(_, _)
\* The loop of look_for_unsorted_match_arms and the checks that follow it.
\* Returns Ok or the Err, or the panic of an index out of bounds, and the
\* frames as the loop left them.
frame_loop(arms, m) ==
    LET finished ==
            LET o == look_for_unsorted_or_patterns(m.sortable_items_in_or_patterns, 1)
                a == look_for_unsorted_items(m.sortable_items_in_match_arms)
            IN  [ok |-> o.ok /\ a.ok, err |-> IF ~o.ok THEN o.err ELSE a.err,
                 panic |-> "", m |-> m]
        after(step) ==
            IF step.next = "continue" THEN frame_loop(arms, step.m)
            ELSE IF step.next = "break"
            THEN frame_loop(arms, [step.m EXCEPT !.stack = <<>>])
            ELSE IF step.next = "panic"
            THEN [ok |-> FALSE, err |-> NoError, panic |-> StorageIndexOutOfBounds,
                  m |-> step.m]
            ELSE [ok |-> FALSE, err |-> step.err, panic |-> "", m |-> step.m]
    IN  IF m.stack = <<>> THEN finished
        ELSE Only({after(step) : step \in {frame_operation(arms, m)}})

\* look_for_unsorted_match_arms
look_for_unsorted_match_arms(arms) ==
    frame_loop(arms,
               [stack |-> <<ParseArm(0)>>,
                storage_stack |-> <<>>,
                sortable_items_in_match_arms |-> new_speculative,
                sortable_items_in_or_patterns |-> <<>>])

\* ---------------------------------------------------------- the two macros
\* Item::Enum: the idents of its variants
ItemEnum(variants) == [kind |-> "Enum", variants |-> variants, body |-> <<>>]
\* Any other item #[sorted] can stand on
ItemStruct == [kind |-> "Struct", variants |-> <<>>, body |-> <<>>]
\* ItemFn: the match expressions of its block, in source order
ItemFn(body) == [kind |-> "Fn", variants |-> <<>>, body |-> body]

\* ExprMatch: the paths of its attributes and its arms
ExprMatch(attrs, arms) == [attrs |-> attrs, arms |-> arms]
\* Arm: its pattern, whether it has a guard, and the match expressions of its
\* body, in source order
Arm(pat, guard, body) == [pat |-> pat, guard |-> guard, body |-> body]

\* The tokens of the ident of variant i
VariantTokens(ident, i) == [kind |-> "Ident", n |-> ident, span |-> <<i>>]

NoneError == [some |-> FALSE, e |-> NoError]
SomeError(e) == [some |-> TRUE, e |-> e]

\* look_for_unsorted_enum_variants
look_for_unsorted_enum_variants(input) ==
    IF input.kind # "Enum"
    THEN [ok |-> FALSE,
          err |-> SortedError("expected enum or match expression", NoTokens, NoTokens)]
    ELSE look_for_unsorted_items(
             Items("StringSegments",
                   [i \in 1..Len(input.variants) |->
                       new_with_value(value_of_ident(input.variants[i]),
                                      VariantTokens(input.variants[i], i))]))

\* is_sorted_attribute: a path of one or two segments, all of them `sorted`
is_sorted_attribute(path) ==
    /\ Len(path) \in {1, 2}
    /\ \A i \in 1..Len(path) : path[i] = "sorted"

\* Visitor { error } and the panic that ended the visit, if any
Visitor(error, panic) == [error |-> error, panic |-> panic]

\* The assignment `self.error = look_for_unsorted_match_arms(..).err()`
assign_error(self, result) ==
    [self EXCEPT !.error = IF result.ok THEN NoneError ELSE SomeError(result.err)]

RECURSIVE visit_expr_match_mut(_, _)
RECURSIVE visit_arms(_, _, _)
RECURSIVE visit_exprs(_, _, _)
\* Visitor::visit_expr_match_mut.  Returns the visitor and the expression
\* after the visit.
visit_expr_match_mut(self, match_expression) ==
    LET found_sorted_attribute ==
            \E i \in 1..Len(match_expression.attrs) :
                is_sorted_attribute(match_expression.attrs[i])
        retained == [match_expression EXCEPT !.attrs =
                        SelectSeq(@, LAMBDA a : ~is_sorted_attribute(a))]
        descend(visitor) ==
            Only({[self |-> inner.self, expr |-> [retained EXCEPT !.arms = inner.arms]] :
                     inner \in {visit_arms(visitor, retained.arms, 1)}})
        checked(result) ==
            IF result.panic # ""
            THEN [self |-> [self EXCEPT !.panic = result.panic], expr |-> retained]
            ELSE IF assign_error(self, result).error.some
            THEN [self |-> assign_error(self, result), expr |-> retained]
            ELSE descend(assign_error(self, result))
    IN  IF self.panic # "" THEN [self |-> self, expr |-> match_expression]
        ELSE IF found_sorted_attribute
        THEN Only({checked(result) :
                      result \in {look_for_unsorted_match_arms(match_expression.arms)}})
        ELSE descend(self)

\* visit_mut::visit_expr_match_mut: the arms in order, and in each arm the
\* match expressions of its body
visit_arms(self, arms, i) ==
    IF i > Len(arms) THEN [self |-> self, arms |-> arms]
    ELSE Only({visit_arms(b.self, [arms EXCEPT ![i].body = b.exprs], i + 1) :
                  b \in {visit_exprs(self, arms[i].body, 1)}})

\* The match expressions of a block, in source order
visit_exprs(self, exprs, i) ==
    IF i > Len(exprs) THEN [self |-> self, exprs |-> exprs]
    ELSE Only({visit_exprs(r.self, [exprs EXCEPT ![i] = r.expr], i + 1) :
                  r \in {visit_expr_match_mut(self, exprs[i])}})

\* look_for_unsorted_match_patterns: the function after the visit, and the
\* compile error appended to it, if any
look_for_unsorted_match_patterns(input) ==
    LET r == visit_exprs(Visitor(NoneError, ""), input.body, 1)
    IN  [output |-> [input EXCEPT !.body = r.exprs],
         error |-> r.self.error,
         panic |-> r.self.panic]

\* ------------------------------------------------- the seq crate: tokens
\* proc_macro2::TokenTree.  An Ident and a Punct have a text; a Literal has a
\* text and the kind syn::Lit parses it to ("Float." is a float written with
\* a point); a Group has a delimiter and a stream.
TokenTree(kind, text, lit, stream) ==
    [kind |-> kind, text |-> text, lit |-> lit, stream |-> stream]

Ident(name) == TokenTree("Ident", name, "", <<>>)
Punct(ch) == TokenTree("Punct", ch, "", <<>>)
Literal(text, lit) == TokenTree("Literal", text, lit, <<>>)
Group(delim, stream) == TokenTree("Group", delim, "", stream)

Parenthesis == "("
Brace == "{"

\* Literal::u128_unsuffixed(n)
u128_unsuffixed(n) == Literal(ToString(n), "Int")

\* ------------------------------------------------------ seq: parse.rs
\* enum ParsedTokenStream
ParsedTokenStream(kind, stream, components, delim, parsed_token_streams) ==
    [kind |-> kind, stream |-> stream, components |-> components, delim |-> delim,
     parsed_token_streams |-> parsed_token_streams]

RepeatedSection(parsed_token_streams) ==
    ParsedTokenStream("RepeatedSection", <<>>, <<>>, "", parsed_token_streams)
NonReplaceableTokenStream(stream) ==
    ParsedTokenStream("NonReplaceableTokenStream", stream, <<>>, "", <<>>)
ReplaceableStandaloneIdent ==
    ParsedTokenStream("ReplaceableStandaloneIdent", <<>>, <<>>, "", <<>>)
ReplaceableComplexIdent(components) ==
    ParsedTokenStream("ReplaceableComplexIdent", <<>>, components, "", <<>>)
ReplaceableGroup(delim, parsed_token_streams) ==
    ParsedTokenStream("ReplaceableGroup", <<>>, <<>>, delim, parsed_token_streams)

\* enum ParsedReplaceableComplexIdentComponent
FixedComponent(c) == [fixed |-> TRUE, c |-> c]
ReplaceableComponent == [fixed |-> FALSE, c |-> ""]

\* Option<AdditionalFrameData> of a frame
NoAdditionalData == [kind |-> "None", delim |-> ""]
GroupFrameData(delim) == [kind |-> "Group", delim |-> delim]
RepeatedSectionFrame == [kind |-> "RepeatedSection", delim |-> ""]

\* struct Frame of parse.rs; the cursor is the rest of the stream it walks
ParseFrame(cursor, parsed_token_streams, is_in_repeated_section, additional_data) ==
    [cursor |-> cursor, parsed_token_streams |-> parsed_token_streams,
     is_in_repeated_section |-> is_in_repeated_section,
     additional_data |-> additional_data]

\* Option<&Ident>
NoIdent == [some |-> FALSE, name |-> ""]
SomeIdent(name) == [some |-> TRUE, name |-> name]

\* Cursor::ident, Cursor::punct, Cursor::literal, Cursor::any_group
AtKind(cursor, kind) == cursor # <<>> /\ Head(cursor).kind = kind

\* Cursor::group(Delimiter::Parenthesis)
AtGroup(cursor, delim) == AtKind(cursor, "Group") /\ Head(cursor).text = delim

\* Cursor::punct that is the character ch
AtPunct(cursor, ch) == AtKind(cursor, "Punct") /\ Head(cursor).text = ch

\* Cursor::ident that is, or is not, the identifier to replace
AtIdent(cursor) == AtKind(cursor, "Ident")

append_to_last_non_replaceable_token_stream_or_push_new(parsed_token_streams, stream) ==
    LET n == Len(parsed_token_streams)
    IN  IF n > 0 /\ parsed_token_streams[n].kind = "NonReplaceableTokenStream"
        THEN [parsed_token_streams EXCEPT ![n].stream = @ \o stream]
        ELSE Append(parsed_token_streams, NonReplaceableTokenStream(stream))

\* struct ParseComplexIdentData
ParseComplexIdentData(components, current_cursor, needs_ident_to_replace) ==
    [components |-> components, current_cursor |-> current_cursor,
     needs_ident_to_replace |-> needs_ident_to_replace, break |-> FALSE]

Break(parse_data) == [parse_data EXCEPT !.break = TRUE]

parse_replaceable_complex_ident_subident(ident, ident_to_replace, parse_data, next_cursor) ==
    IF ident.text = ident_to_replace
    THEN IF ~parse_data.needs_ident_to_replace THEN Break(parse_data)
         ELSE ParseComplexIdentData(Append(parse_data.components, ReplaceableComponent),
                                    next_cursor, FALSE)
    ELSE IF parse_data.needs_ident_to_replace THEN Break(parse_data)
         ELSE ParseComplexIdentData(Append(parse_data.components, FixedComponent(ident.text)),
                                    next_cursor, TRUE)

\* cursor is the cursor after the second `~`
parse_replaceable_complex_ident_punct(punct, ident_to_replace, parse_data, cursor) ==
    IF punct.text # "~" THEN Break(parse_data)
    ELSE IF ~AtIdent(cursor) THEN Break(parse_data)
    ELSE IF Head(cursor).text # ident_to_replace THEN Break(parse_data)
    ELSE ParseComplexIdentData(Append(parse_data.components, ReplaceableComponent),
                               Tail(cursor), FALSE)

parse_replaceable_complex_ident_literal(literal, parse_data, next_cursor) ==
    IF parse_data.needs_ident_to_replace THEN Break(parse_data)
    ELSE IF literal.lit \notin {"Int", "Float"} THEN Break(parse_data)
    ELSE ParseComplexIdentData(Append(parse_data.components, FixedComponent(literal.text)),
                               next_cursor, TRUE)

RECURSIVE complex_ident_loop(_, _)
\* while let Some((punct, next_cursor)) = parse_data.current_cursor.punct()
complex_ident_loop(parse_data, ident_to_replace) ==
    IF ~AtPunct(parse_data.current_cursor, "~") THEN parse_data
    ELSE
      LET next_cursor == Tail(parse_data.current_cursor)
          after ==
            IF AtIdent(next_cursor)
            THEN parse_replaceable_complex_ident_subident(
                     Head(next_cursor), ident_to_replace, parse_data, Tail(next_cursor))
            ELSE IF AtKind(next_cursor, "Punct")
            THEN parse_replaceable_complex_ident_punct(
                     Head(next_cursor), ident_to_replace, parse_data, Tail(next_cursor))
            ELSE IF AtKind(next_cursor, "Literal")
            THEN parse_replaceable_complex_ident_literal(
                     Head(next_cursor), parse_data, Tail(next_cursor))
            ELSE Break(parse_data)
      IN  IF after.break THEN parse_data
          ELSE complex_ident_loop(after, ident_to_replace)

\* cursor is the cursor after current_ident.  Returns the parsed identifier
\* and the cursor after it, or none.
parse_replaceable_complex_ident(cursor, current_ident, ident_to_replace) ==
    IF ~AtPunct(cursor, "~")
    THEN [some |-> FALSE, parsed |-> ReplaceableComplexIdent(<<>>), cursor |-> cursor]
    ELSE IF ~AtIdent(Tail(cursor)) \/ Head(Tail(cursor)).text # ident_to_replace
    THEN [some |-> FALSE, parsed |-> ReplaceableComplexIdent(<<>>), cursor |-> cursor]
    ELSE
      LET parse_data ==
            complex_ident_loop(
                ParseComplexIdentData(
                    <<FixedComponent(current_ident.text), ReplaceableComponent>>,
                    Tail(Tail(cursor)), FALSE),
                ident_to_replace)
      IN  [some |-> TRUE, parsed |-> ReplaceableComplexIdent(parse_data.components),
           cursor |-> parse_data.current_cursor]

\* struct ParseData
ParseData(ident_to_replace, top_level_ident, repeated_section, parsed_token_streams, stack) ==
    [ident_to_replace |-> ident_to_replace,
     encountered_top_level_ident_to_replace |-> top_level_ident,
     encountered_repeated_section |-> repeated_section,
     parsed_token_streams |-> parsed_token_streams,
     stack |-> stack]

\* The two things a step of the frame loop leaves: the parse data, and the
\* frame if the loop goes on with it
Going(parse_data, frame) == [parse_data |-> parse_data, frame |-> frame, going |-> TRUE]
Left(parse_data) ==
    [parse_data |-> parse_data, frame |-> ParseFrame(<<>>, <<>>, FALSE, NoAdditionalData),
     going |-> FALSE]

\* parse_data.encountered_top_level_ident_to_replace = true, outside a section
note_ident_to_replace(parse_data, frame) ==
    IF ~frame.is_in_repeated_section
    THEN [parse_data EXCEPT !.encountered_top_level_ident_to_replace = TRUE]
    ELSE parse_data

parse_ident(ident, parse_data, frame, next_cursor) ==
    LET complex ==
          IF parse_data.ident_to_replace.some
          THEN parse_replaceable_complex_ident(next_cursor, ident,
                                               parse_data.ident_to_replace.name)
          ELSE [some |-> FALSE, parsed |-> ReplaceableComplexIdent(<<>>),
                cursor |-> next_cursor]
    IN  IF parse_data.ident_to_replace.some /\ ident.text = parse_data.ident_to_replace.name
        THEN Going(note_ident_to_replace(parse_data, frame),
                   [frame EXCEPT
                      !.parsed_token_streams = Append(@, ReplaceableStandaloneIdent),
                      !.cursor = next_cursor])
        ELSE IF complex.some
        THEN Going(note_ident_to_replace(parse_data, frame),
                   [frame EXCEPT
                      !.parsed_token_streams = Append(@, complex.parsed),
                      !.cursor = complex.cursor])
        ELSE Going(parse_data,
                   [frame EXCEPT
                      !.parsed_token_streams =
                         append_to_last_non_replaceable_token_stream_or_push_new(@, <<ident>>),
                      !.cursor = next_cursor])

\* parse_punct, parse_literal: the token goes to the non-replaceable stream
parse_punct(punct, parse_data, frame, next_cursor) ==
    Going(parse_data,
          [frame EXCEPT
             !.parsed_token_streams =
                append_to_last_non_replaceable_token_stream_or_push_new(@, <<punct>>),
             !.cursor = next_cursor])

\* `#`, a parenthesised group, `*`
is_repeated_section(punct, next_cursor) ==
    /\ punct.text = "#"
    /\ AtGroup(next_cursor, Parenthesis)
    /\ AtPunct(Tail(next_cursor), "*")

\* Break of parse_repeated_section: the frame goes on after the `*`, and a
\* frame for the group is pushed on it
parse_repeated_section(punct, parse_data, frame, next_cursor) ==
    LET group_cursor == Head(next_cursor).stream
        after == Tail(Tail(next_cursor))
    IN  Left([parse_data EXCEPT
                !.stack = @ \o <<[frame EXCEPT !.cursor = after],
                                 ParseFrame(group_cursor, <<>>, TRUE, RepeatedSectionFrame)>>,
                !.encountered_repeated_section = TRUE])

parse_group(group, parse_data, frame, next_cursor) ==
    Left([parse_data EXCEPT
            !.stack = @ \o <<[frame EXCEPT !.cursor = next_cursor],
                             ParseFrame(group.stream, <<>>, frame.is_in_repeated_section,
                                        GroupFrameData(group.text))>>])

finish_group_top_frame(group_data, parsed_token_streams, previous_frame) ==
    IF Len(parsed_token_streams) = 1
    THEN IF parsed_token_streams[1].kind = "NonReplaceableTokenStream"
         THEN [previous_frame EXCEPT
                 !.parsed_token_streams =
                    append_to_last_non_replaceable_token_stream_or_push_new(
                        @, <<Group(group_data.delim, parsed_token_streams[1].stream)>>)]
         ELSE [previous_frame EXCEPT
                 !.parsed_token_streams =
                    Append(@, ReplaceableGroup(group_data.delim, parsed_token_streams))]
    ELSE IF parsed_token_streams = <<>>
    THEN [previous_frame EXCEPT
            !.parsed_token_streams =
               append_to_last_non_replaceable_token_stream_or_push_new(
                   @, <<Group(group_data.delim, <<>>)>>)]
    ELSE [previous_frame EXCEPT
            !.parsed_token_streams =
               Append(@, ReplaceableGroup(group_data.delim, parsed_token_streams))]

finish_repeated_section_top_frame(parsed_token_streams, previous_frame) ==
    [previous_frame EXCEPT
       !.parsed_token_streams = Append(@, RepeatedSection(parsed_token_streams))]

finish_regular_top_frame(parsed_token_streams, previous_frame) ==
    [previous_frame EXCEPT !.parsed_token_streams = @ \o parsed_token_streams]

finish_top_frame(frame, previous_frame) ==
    IF frame.additional_data.kind = "Group"
    THEN finish_group_top_frame(frame.additional_data, frame.parsed_token_streams,
                                previous_frame)
    ELSE IF frame.additional_data.kind = "RepeatedSection"
    THEN finish_repeated_section_top_frame(frame.parsed_token_streams, previous_frame)
    ELSE finish_regular_top_frame(frame.parsed_token_streams, previous_frame)

\* A bottom frame that leaves the body as it is whenever it has a section
finish_bottom_frame_sections_only(parse_data, frame) ==
    IF parse_data.encountered_repeated_section
    THEN [parse_data EXCEPT !.parsed_token_streams = frame.parsed_token_streams]
    ELSE [parse_data EXCEPT
            !.parsed_token_streams = Append(@, RepeatedSection(frame.parsed_token_streams))]

finish_bottom_frame(parse_data, frame) ==
    IF parse_data.encountered_repeated_section
         /\ ~parse_data.encountered_top_level_ident_to_replace
    THEN [parse_data EXCEPT !.parsed_token_streams = frame.parsed_token_streams]
    ELSE [parse_data EXCEPT
            !.parsed_token_streams = Append(@, RepeatedSection(frame.parsed_token_streams))]

finish_parse_frame(parse_data, frame) ==
    LET n == Len(parse_data.stack)
    IN  IF n > 0
        THEN [parse_data EXCEPT !.stack[n] = finish_top_frame(frame, @)]
        ELSE finish_bottom_frame(parse_data, frame)

\* One turn of the inner loop of token_stream_at_cursor.  A literal is parsed
\* as a punct is (parse_literal); the streams of the model hold no lifetime.
parse_token(parse_data, frame) ==
    LET cursor == frame.cursor
    IN  IF AtIdent(cursor)
        THEN parse_ident(Head(cursor), parse_data, frame, Tail(cursor))
        ELSE IF AtKind(cursor, "Punct")
        THEN IF is_repeated_section(Head(cursor), Tail(cursor))
             THEN parse_repeated_section(Head(cursor), parse_data, frame, Tail(cursor))
             ELSE parse_punct(Head(cursor), parse_data, frame, Tail(cursor))
        ELSE IF AtKind(cursor, "Literal")
        THEN parse_punct(Head(cursor), parse_data, frame, Tail(cursor))
        ELSE IF AtKind(cursor, "Group")
        THEN parse_group(Head(cursor), parse_data, frame, Tail(cursor))
        ELSE Left(finish_parse_frame(parse_data, frame))

RECURSIVE parse_loop(_, _)
\* loop { ... } on one frame, until it breaks
parse_loop(parse_data, frame) ==
    LET after == Only({parse_token(parse_data, frame)})
    IN  IF after.going THEN parse_loop(after.parse_data, after.frame)
        ELSE after.parse_data

RECURSIVE parse_stack(_)
\* while let Some(mut frame) = parse_data.stack.pop()
parse_stack(parse_data) ==
    LET n == Len(parse_data.stack)
    IN  IF n = 0 THEN parse_data.parsed_token_streams
        ELSE parse_stack(Only({parse_loop([parse_data EXCEPT !.stack = SubSeq(@, 1, n - 1)],
                                          parse_data.stack[n])}))

token_stream_at_cursor(cursor, ident_to_replace) ==
    parse_stack(ParseData(ident_to_replace, FALSE, FALSE, <<>>,
                          <<ParseFrame(cursor, <<>>, FALSE, NoAdditionalData)>>))

\* -------------------------------------------------- seq: seq_data.rs
\* enum RangeKind
Exclusive(start, end) == [kind |-> "Exclusive", start |-> start, end |-> end]
Inclusive(start, end) == [kind |-> "Inclusive", start |-> start, end |-> end]

\* struct SeqData
SeqData(ident, range_kind, body_token_stream) ==
    [ident |-> ident, range_kind |-> range_kind, body_token_stream |-> body_token_stream]

\* -------------------------------------------------- seq: construct.rs
\* struct Frame of construct.rs
ConstructFrame(output_token_stream, parsed_token_streams, repetition_index, additional_data) ==
    [output_token_stream |-> output_token_stream,
     parsed_token_streams |-> parsed_token_streams,
     repetition_index |-> repetition_index,
     additional_data |-> additional_data]

\* struct ConstructData
ConstructData(output_token_stream, stack) ==
    [output_token_stream |-> output_token_stream, stack |-> stack]

\* A repeat that calls f with the indexes in the order of the range
repeat_in_order(range_kind) ==
    LET last == IF range_kind.kind = "Exclusive" THEN range_kind.end - 1 ELSE range_kind.end
    IN  [k \in 1..((last - range_kind.start) + 1) |-> range_kind.start + (k - 1)]

\* repeat_in_reverse: the indexes f is called with, in the order of the
\* calls: r.clone().rev()
repeat_in_reverse(range_kind) ==
    LET last == IF range_kind.kind = "Exclusive" THEN range_kind.end - 1 ELSE range_kind.end
    IN  [k \in 1..((last - range_kind.start) + 1) |-> last - (k - 1)]

\* The frame goes on after the section, and on it a frame for each index is
\* pushed, the first index of the range on top
construct_repeated_section(repeated_section, range_kind, construct_data, parsed_stream_index, frame) ==
    LET calls == repeat_in_reverse(range_kind)
    IN  [construct_data EXCEPT
           !.stack = @ \o <<[frame EXCEPT
                               !.parsed_token_streams =
                                  SubSeq(@, parsed_stream_index + 1, Len(@))]>>
                       \o [k \in 1..Len(calls) |->
                             ConstructFrame(<<>>, repeated_section, calls[k],
                                            RepeatedSectionFrame)]]

construct_non_replaceable_token_stream(parsed_stream, frame) ==
    [frame EXCEPT !.output_token_stream = @ \o parsed_stream.stream]

construct_replaceable_standalone_ident(parsed_ident, frame) ==
    [frame EXCEPT !.output_token_stream = Append(@, u128_unsuffixed(frame.repetition_index))]

RECURSIVE full_ident_name(_, _)
\* components.iter().fold(String::new(), ...)
full_ident_name(components, repetition_index_as_string) ==
    IF components = <<>> THEN ""
    ELSE (IF Head(components).fixed THEN Head(components).c
          ELSE repetition_index_as_string)
           \o full_ident_name(Tail(components), repetition_index_as_string)

construct_replaceable_complex_ident(parsed_ident, frame) ==
    [frame EXCEPT
       !.output_token_stream =
          Append(@, Ident(full_ident_name(parsed_ident.components,
                                          ToString(frame.repetition_index))))]

construct_replaceable_group(parsed_group, construct_data, parsed_stream_index, frame) ==
    [construct_data EXCEPT
       !.stack = @ \o <<[frame EXCEPT
                           !.parsed_token_streams =
                              SubSeq(@, parsed_stream_index + 1, Len(@))],
                        ConstructFrame(<<>>, parsed_group.parsed_token_streams,
                                       frame.repetition_index,
                                       GroupFrameData(parsed_group.delim))>>]

finish_frame(construct_data, frame) ==
    LET n == Len(construct_data.stack)
    IN  IF n > 0
        THEN IF frame.additional_data.kind = "Group"
             THEN [construct_data EXCEPT
                     !.stack[n].output_token_stream =
                        Append(@, Group(frame.additional_data.delim,
                                        frame.output_token_stream))]
             ELSE [construct_data EXCEPT
                     !.stack[n].output_token_stream = @ \o frame.output_token_stream]
        ELSE [construct_data EXCEPT !.output_token_stream = frame.output_token_stream]

RECURSIVE construct_streams(_, _, _, _)
\* for (parsed_stream_index, parsed_stream) in frame.parsed_token_streams:
\* parsed_stream_index counts from 1 here
construct_streams(construct_data, frame, parsed_stream_index, range_kind) ==
    IF parsed_stream_index > Len(frame.parsed_token_streams)
    THEN finish_frame(construct_data, frame)
    ELSE
      LET parsed_stream == frame.parsed_token_streams[parsed_stream_index]
      IN  IF parsed_stream.kind = "RepeatedSection"
          THEN construct_repeated_section(parsed_stream.parsed_token_streams, range_kind,
                                          construct_data, parsed_stream_index, frame)
          ELSE IF parsed_stream.kind = "ReplaceableGroup"
          THEN construct_replaceable_group(parsed_stream, construct_data,
                                           parsed_stream_index, frame)
          ELSE construct_streams(
                   construct_data,
                   Only({IF parsed_stream.kind = "NonReplaceableTokenStream"
                         THEN construct_non_replaceable_token_stream(parsed_stream, frame)
                         ELSE IF parsed_stream.kind = "ReplaceableStandaloneIdent"
                         THEN construct_replaceable_standalone_ident(parsed_stream, frame)
                         ELSE construct_replaceable_complex_ident(parsed_stream, frame)}),
                   parsed_stream_index + 1, range_kind)

RECURSIVE construct_stack(_, _)
\* 'stack_loop: while let Some(mut frame) = construct_data.stack.pop()
construct_stack(construct_data, range_kind) ==
    LET n == Len(construct_data.stack)
    IN  IF n = 0 THEN construct_data.output_token_stream
        ELSE construct_stack(
                 Only({construct_streams(
                           [construct_data EXCEPT !.stack = SubSeq(@, 1, n - 1)],
                           construct_data.stack[n], 1, range_kind)}),
                 range_kind)

output_token_stream(parsed_token_streams, range_kind) ==
    construct_stack(
        ConstructData(<<>>, <<ConstructFrame(<<>>, parsed_token_streams, 0,
                                             NoAdditionalData)>>),
        range_kind)

\* pub fn seq(input: proc_macro::TokenStream) -> proc_macro::TokenStream
seq_macro(seq_data) ==
    output_token_stream(
        token_stream_at_cursor(seq_data.body_token_stream, seq_data.ident),
        seq_data.range_kind)

\* ------------------------------------------------------------------- state
VARIABLES
    data,    \* the storage bytes: self.data, or the slice of a direct call
    fields,  \* the specifiers of the fields, in declaration order
    base,    \* the bit index of the first field (0 in a bitfield struct)
    pc,      \* "idle", or "panicked" once a call has panicked
    ret,     \* the last call: new, set or get, its field, what get returned and
             \* the panic that ended it ("" if it returned)
    passed,  \* per field, the value last passed to its setter, if any
    item,    \* the struct or enum item handed to a macro, if any
    errors,  \* the compile errors of the item, each with the place it points at
    output   \* the item a macro of the sorted crate has emitted, if any

vars == <<data, fields, base, pc, ret, passed, item, errors, output>>

\* Accessors that place every field at the start of a byte of its own
bit_index_byte_aligned(k) == base + (8 * (k - 1))

\* The bit index the accessors of field k pass: the running sum of the BITS
\* of the fields before it.
bit_index(k) == base + total_bits(SubSeq(fields, 1, k - 1))

Never == [some |-> FALSE, v |-> 0]
Passed(v) == [some |-> TRUE, v |-> v]

\* The items of the macros: a struct under #[bitfield] with its bits
\* attributes and fields (each a specifier type with its bits attributes), an
\* enum under #[derive(BitfieldSpecifier)] with its attributes and the
\* discriminants of its variants, or no item at all.
StructItem(shape, attrs, item_fields) ==
    [kind |-> "struct", shape |-> shape, attrs |-> attrs, fields |-> item_fields,
     variants |-> <<>>]
EnumItem(attrs, variants) ==
    [kind |-> "enum", shape |-> "enum", attrs |-> attrs, fields |-> <<>>,
     variants |-> variants]
Field(ty, attrs) == [ty |-> ty, attrs |-> attrs]
NoItem == [kind |-> "none", shape |-> "none", attrs |-> <<>>, fields |-> <<>>,
           variants |-> <<>>]

\* ------------------------------------------------------ inputs of the model
\* 0xABCDEF
Probe == (171 * 65536) + (205 * 256) + 239

\* Fields of these widths are set to every value below 2^BITS.
AllValuesWidths == {1, 2, 3}

\* The arguments tried for the setter of B<n>, values of its SetType: 0, the
\* largest value of n bits, its top bit alone, the low n bits of 0xABCDEF
\* and, if n bits do not fill the type, one value that n bits cannot hold.
BValues(n) ==
    LET t == get_primitive_type(n)
    IN  (IF n \in AllValuesWidths THEN 0..(Pow2(n) - 1) ELSE {0})
          \cup {Pow2(n) - 1, Pow2(n - 1), LowBits(Probe, n)}
          \cup (IF LowBits(Probe, t) >= Pow2(n) THEN {LowBits(Probe, t)}
                ELSE IF n < t THEN {Pow2(n)} ELSE {})

RECURSIVE Ascending(_)
Ascending(S) ==
    IF S = {} THEN <<>>
    ELSE LET m == CHOOSE x \in S : \A y \in S : x <= y
         IN  <<m>> \o Ascending(S \ {m})

Reverse(s) == [i \in 1..Len(s) |-> s[Len(s) + 1 - i]]

\* Largest number of variants of a generated enum item
MaxVariants == 4
\* Largest discriminant of a generated enum item (the smallest is -1)
MaxDisc == 4
\* Largest set_bits attribute of a generated enum item
MaxSetBits == 2

\* Enum items: distinct discriminants (rustc rejects duplicates), declared in
\* descending order, without or with a set_bits attribute.
VariantLists ==
    LET sets == {S \in SUBSET ((-1)..MaxDisc) : Cardinality(S) \in 1..MaxVariants}
    IN  {Reverse(Ascending(S)) : S \in sets}

EnumItems ==
    {[variants |-> vs, set_bits |-> sb, documented_bits |-> NoneU8] :
        vs \in VariantLists,
        sb \in {NoneU8} \cup {SomeU8(b) : b \in 0..MaxSetBits}}

\* The enums of the documentation and of the tests
TriggerMode == [variants |-> <<0, 1>>, set_bits |-> NoneU8, documented_bits |-> NoneU8]
DeliveryMode ==
    [variants |-> <<0, 1, 2, 3, 4, 5, 6, 7>>, set_bits |-> NoneU8, documented_bits |-> NoneU8]
DeliveryModeSetBits ==
    [variants |-> <<2, 4>>, set_bits |-> SomeU8(3), documented_bits |-> NoneU8]
SmallPrime ==
    [variants |-> <<2, 3, 5, 7, 11, 13>>, set_bits |-> SomeU8(4), documented_bits |-> NoneU8]

EnumSpecifier(enum_item) == parse_enum(enum_item, TRUE).spec

\* The specifier types a direct call is made on
DirectSpecifiers ==
    {BSpecifier(n) : n \in 1..MaxBits} \cup {BoolSpecifier}
      \cup {parse_enum(e, TRUE).spec : e \in {i \in EnumItems : parse_enum(i, TRUE).ok}}
      \cup {EnumSpecifier(DeliveryMode), EnumSpecifier(SmallPrime)}

\* Bytes a storage is filled with before a direct call
FillBytes == {0, 255, 165, 90}

\* The structs of the documentation and of the tests, and every struct of two
\* B fields
Layouts ==
    {<<BSpecifier(1), BSpecifier(3), BSpecifier(4), BSpecifier(24)>>,
     <<BoolSpecifier, EnumSpecifier(TriggerMode), EnumSpecifier(DeliveryMode), BSpecifier(3)>>,
     <<EnumSpecifier(DeliveryModeSetBits), BSpecifier(5)>>,
     <<BSpecifier(16), BSpecifier(8), BSpecifier(8)>>,
     <<EnumSpecifier(SmallPrime), EnumSpecifier(SmallPrime)>>,
     <<BSpecifier(8)>>}
      \cup {<<BSpecifier(a), BSpecifier(b)>> : a \in 1..MaxBits, b \in 1..MaxBits}

\* ----------------------------------------------------------------- actions
\* A direct call harness: one specifier at any bit index of a filled slice.
InitDirect ==
    /\ \E spec \in DirectSpecifiers : fields = <<spec>>
    /\ base \in 0..(8 * BufLen)
    /\ \E b \in FillBytes : data = [i \in 1..BufLen |-> b]
    /\ pc = "idle"
    /\ ret = [op |-> "new", field |-> 0, value |-> 0, panic |-> ""]
    /\ passed = <<Never>>
    /\ item = NoItem
    /\ errors = {}
    /\ output = NoItem

\* A bitfield struct that compiled, after new().
InitStruct ==
    /\ fields \in {l \in Layouts : multiple_of_8_size_check(l)}
    /\ base = 0
    /\ data = new(fields)
    /\ pc = "idle"
    /\ ret = [op |-> "new", field |-> 0, value |-> 0, panic |-> ""]
    /\ passed = [k \in 1..Len(fields) |-> Never]
    /\ item = NoItem
    /\ errors = {}
    /\ output = NoItem

\* set_<field>(value): <Ty as Specifier>::set(&mut self.data, bit_index, value)
Set(k, value) ==
    LET r == SpecifierSet(fields[k], data, bit_index(k), value)
    IN  /\ pc = "idle"
        /\ data' = r.data
        /\ pc' = IF r.panic # "" THEN "panicked" ELSE "idle"
        /\ ret' = [op |-> "set", field |-> k, value |-> 0, panic |-> r.panic]
        /\ passed' = [passed EXCEPT ![k] = Passed(value)]
        /\ UNCHANGED <<fields, base, item, errors, output>>

\* get_<field>(): <Ty as Specifier>::get(&self.data, bit_index)
Get(k) ==
    LET r == SpecifierGet(fields[k], data, bit_index(k))
    IN  /\ pc = "idle"
        /\ pc' = IF r.panic # "" THEN "panicked" ELSE "idle"
        /\ ret' = [op |-> "get", field |-> k, value |-> r.value, panic |-> r.panic]
        /\ UNCHANGED <<data, fields, base, passed, item, errors, output>>

SetB == \E k \in 1..Len(fields) :
    /\ fields[k].kind = "B"
    /\ \E value \in BValues(fields[k].BITS) : Set(k, value)

SetBool == \E k \in 1..Len(fields) :
    /\ fields[k].kind = "bool"
    /\ \E value \in BOOLEAN : Set(k, value)

SetEnum == \E k \in 1..Len(fields) :
    /\ fields[k].kind = "enum"
    /\ \E variant \in 1..Len(fields[k].variants) : Set(k, variant)

GetB == \E k \in 1..Len(fields) : fields[k].kind = "B" /\ Get(k)

GetBool == \E k \in 1..Len(fields) : fields[k].kind = "bool" /\ Get(k)

GetEnum == \E k \in 1..Len(fields) : fields[k].kind = "enum" /\ Get(k)

Next == SetB \/ SetBool \/ SetEnum \/ GetB \/ GetBool \/ GetEnum

\* The generated accessors of a bitfield struct
Spec == InitStruct /\ [][Next]_vars

\* Direct calls of Specifier::get and Specifier::set
SpecDirect == InitDirect /\ [][Next]_vars

\* Both harnesses
SpecAll == (InitDirect \/ InitStruct) /\ [][Next]_vars

\* ------------------------------------------------------------ construction
\* The specifier types of the fields of generated struct items
FieldTypes ==
    {BSpecifier(n) : n \in 1..MaxBits}
      \cup {BoolSpecifier, EnumSpecifier(TriggerMode), EnumSpecifier(DeliveryMode)}

\* The sizes a bits attribute documents for an item of `actual` bits
DocumentedSizes(actual) ==
    {actual, actual + 1} \cup (IF actual > 0 THEN {actual - 1} ELSE {})

\* The lists of attributes tried on a struct or a field of `actual` bits
BitsAttrs(actual) ==
    {<<Attr("bits", n)>> : n \in DocumentedSizes(actual)}
      \cup {<<Attr("bits", actual), Attr("bits", actual)>>,
            <<Attr("doc", 0), Attr("bits", actual)>>,
            <<Attr("bits", 200)>>}

\* The struct with the field types `specs`, struct_attrs on the struct and
\* first_attrs on its first field
StructOf(shape, specs, struct_attrs, first_attrs) ==
    StructItem(shape, struct_attrs,
               [k \in 1..Len(specs) |->
                   Field(specs[k], IF k = 1 THEN first_attrs ELSE <<>>)])

RedirectionTableEntry ==
    <<BoolSpecifier, EnumSpecifier(TriggerMode), EnumSpecifier(DeliveryMode), BSpecifier(3)>>

\* Field lists of the documentation and of the tests, and two of 33 bits
ExampleFieldLists ==
    {<<BSpecifier(1), BSpecifier(3), BSpecifier(4), BSpecifier(24)>>,
     <<BSpecifier(1), BSpecifier(3), BSpecifier(4), BSpecifier(24), BSpecifier(1)>>,
     <<BSpecifier(16), BSpecifier(8), BSpecifier(9)>>,
     RedirectionTableEntry}

\* Struct items: no field, one field or two fields of any type, with bits
\* attributes on the struct or on the first field; the examples, plain and
\* with the documented sizes of the crate documentation; a tuple struct and a
\* unit struct.
StructItems ==
    {StructOf("named", specs, <<>>, <<>>) :
        specs \in {<<>>} \cup {<<a>> : a \in FieldTypes}
                    \cup {<<a, b>> : a \in FieldTypes, b \in FieldTypes}
                    \cup ExampleFieldLists}
      \cup UNION {{StructOf("named", specs, attrs, <<>>) : attrs \in BitsAttrs(total_bits(specs))} :
                    specs \in {<<>>} \cup {<<a>> : a \in FieldTypes}
                               \cup {<<a, b>> : a \in FieldTypes, b \in FieldTypes}}
      \cup UNION {{StructOf("named", specs, <<>>, attrs) : attrs \in BitsAttrs(specs[1].BITS)} :
                    specs \in {<<a>> : a \in FieldTypes}
                               \cup {<<a, b>> : a \in FieldTypes, b \in FieldTypes}}
      \cup {StructOf("named", RedirectionTableEntry, <<Attr("bits", 8)>>, <<Attr("bits", 1)>>),
            StructOf("named", RedirectionTableEntry, <<Attr("bits", 8)>>, <<Attr("bits", 2)>>),
            StructOf("unnamed", <<BSpecifier(16), BSpecifier(8), BSpecifier(8)>>,
                     <<Attr("bits", 32)>>, <<Attr("bits", 16)>>),
            StructOf("unnamed", <<BSpecifier(3), BSpecifier(4)>>, <<>>, <<>>),
            StructItem("unit", <<>>, <<>>)}

\* The attributes of generated enum items
EnumAttrs ==
    {Attr(name, n) : name \in {"bits", "set_bits"}, n \in 0..(MaxSetBits + 1)}

\* Enum items: up to two attributes and any of the variant lists, no variant
\* at all, five and eight variants; attributes above MAX_BITS and above u8.
EnumItemsOfMacro ==
    {EnumItem(attrs, vs) :
        attrs \in {<<>>} \cup {<<a>> : a \in EnumAttrs}
                    \cup {<<a, b>> : a \in EnumAttrs, b \in EnumAttrs},
        vs \in VariantLists \cup {<<>>, <<0, 1, 2, 3, 4>>, DeliveryMode.variants}}
      \cup {EnumItem(<<Attr("set_bits", 129)>>, <<0, 1>>),
            EnumItem(<<Attr("bits", 300)>>, <<0, 1>>),
            EnumItem(<<Attr("doc", 0), Attr("bits", 3)>>, DeliveryMode.variants),
            EnumItem(<<Attr("set_bits", 4)>>, SmallPrime.variants)}

\* Bit indexes of the direct calls made on a derived specifier
DerivedBases == {0, 6}

\* An item in the source, before its macro has run.  A struct has no storage
\* yet; a derived enum will be called on a slice filled with 0xA5.
InitSource ==
    /\ item \in StructItems \cup EnumItemsOfMacro
    /\ fields = <<>>
    /\ base \in (IF item.kind = "enum" THEN DerivedBases ELSE {0})
    /\ data = (IF item.kind = "enum" THEN [i \in 1..BufLen |-> 165] ELSE <<>>)
    /\ pc = "source"
    /\ ret = [op |-> "source", field |-> 0, value |-> 0, panic |-> ""]
    /\ passed = <<>>
    /\ errors = {}
    /\ output = NoItem

\* #[bitfield] on a struct item, the const items of its expansion, and new()
\* if the struct compiled
Bitfield ==
    LET r == parse_struct_item(item)
    IN  /\ pc = "source" /\ item.kind = "struct"
        /\ errors' = r.errors
        /\ pc' = IF r.ok THEN "idle" ELSE "rejected"
        /\ fields' = r.fields
        /\ data' = IF r.ok THEN new(r.fields) ELSE <<>>
        /\ passed' = [k \in 1..Len(r.fields) |-> Never]
        /\ ret' = [op |-> IF r.ok THEN "new" ELSE "compile", field |-> 0, value |-> 0,
                   panic |-> ""]
        /\ UNCHANGED <<base, item, output>>

\* #[derive(BitfieldSpecifier)] on an enum item and the const items of its
\* expansion, by a macro crate built with or without overflow checks
BitfieldSpecifier ==
    \E overflow_checks \in BOOLEAN :
        LET r == implement_specifier(item, overflow_checks)
        IN  /\ pc = "source" /\ item.kind = "enum"
            /\ errors' = r.errors
            /\ pc' = IF r.ok THEN "idle" ELSE "rejected"
            /\ fields' = IF r.ok THEN <<r.spec>> ELSE <<>>
            /\ passed' = IF r.ok THEN <<Never>> ELSE <<>>
            /\ ret' = [op |-> IF r.ok THEN "derive" ELSE "compile", field |-> 0, value |-> 0,
                       panic |-> r.panic]
            /\ UNCHANGED <<data, base, item, output>>

NextBuild == Bitfield \/ BitfieldSpecifier \/ Next

\* The widths an enum declares, up to MAX_BITS and beyond it and beyond u8
DeclaredWidths == (0..(MaxSetBits + 1)) \cup {8, 31, 64, 127, 128, 129, 255, 256, 300}

\* Enum items that declare a width: #[set_bits = w], alone or with #[bits = w]
\* before or after it
DeclaringEnumItems ==
    {EnumItem(attrs, vs) :
        attrs \in UNION {{<<Attr("set_bits", w)>>,
                          <<Attr("set_bits", w), Attr("bits", w)>>,
                          <<Attr("bits", w), Attr("set_bits", w)>>} : w \in DeclaredWidths},
        vs \in VariantLists \cup {<<>>, <<0>>, <<0, 1, 2, 3, 4>>}}

\* Enum items without #[set_bits]: their width is the log2 of the number of
\* their variants
CountedEnumItems ==
    {EnumItem(attrs, vs) :
        attrs \in {<<>>, <<Attr("bits", 0)>>, <<Attr("bits", 1)>>},
        vs \in VariantLists \cup {<<>>, <<0>>, <<1>>}}

\* An enum item of the source, before its derive has run
InitDerive ==
    /\ item \in DeclaringEnumItems \cup CountedEnumItems
    /\ fields = <<>>
    /\ base = 0
    /\ data = [i \in 1..BufLen |-> 165]
    /\ pc = "source"
    /\ ret = [op |-> "source", field |-> 0, value |-> 0, panic |-> ""]
    /\ passed = <<>>
    /\ errors = {}
    /\ output = NoItem

NextDerive == BitfieldSpecifier

\* The derive alone, on enums of every declared width
SpecDerive == InitDerive /\ [][NextDerive]_vars

\* The macros, then the accessors of what compiled
SpecBuild == InitSource /\ [][NextBuild]_vars

\* ------------------------------------------------- the sorted crate's items
\* Idents and integer literals are drawn from 1..MaxKey: an ident is named by
\* its alphabetical rank
MaxKey == 3
\* The longest list of enum variants, and of match arms that are plain
\* literals or wildcards
MaxItems == 3

Keys == 1..MaxKey

\* The lists of idents of an enum
IdentLists == UNION {[1..n -> Keys] : n \in 0..MaxItems}

IntAtoms == {PatInt(n) : n \in Keys}
Atoms == IntAtoms \cup {PatWild}
AtomLists == UNION {[1..n -> Atoms] : n \in 0..MaxItems}

\* a | b, a | b | c, (a | b), (a | b) | (c | d), a | (b | c), (a | b) | c
Ors2 == {PatOr(<<a, b>>) : a \in IntAtoms, b \in IntAtoms}
Ors3 == {PatOr(<<o.subs[1], o.subs[2], c>>) : o \in Ors2, c \in IntAtoms}
ParenOrs == {PatParen(o) : o \in Ors2}
OrsOfOrs == {PatOr(<<x, y>>) : x \in ParenOrs, y \in ParenOrs}
MixedOrs == {PatOr(<<a, x>>) : a \in IntAtoms, x \in ParenOrs}
            \cup {PatOr(<<x, a>>) : a \in IntAtoms, x \in ParenOrs}
IntPats == Atoms \cup Ors2 \cup Ors3 \cup ParenOrs \cup OrsOfOrs \cup MixedOrs

\* Struct and tuple-struct patterns with one field: a literal, an or-pattern,
\* or an or-pattern behind a reference or in a tuple
FieldPats == Atoms \cup Ors2
             \cup {PatReference(o) : o \in Ors2} \cup {PatTuple(<<o, PatWild>>) : o \in Ors2}
PathPats == {PatPath(<<n>>, {}) : n \in Keys}
StructPats == {PatTupleStruct(<<n>>, {}, <<f>>) : n \in Keys, f \in FieldPats}
              \cup {PatStruct(<<n>>, {}, <<f>>) : n \in Keys, f \in FieldPats}
              \cup {PatTupleStruct(<<1>>, {}, <<f>>) : f \in OrsOfOrs}
\* An or-pattern of tuple-structs whose fields are or-patterns
OrsOfStructs == {PatOr(<<PatTupleStruct(<<a>>, {}, <<x>>), PatPath(<<b>>, {})>>) :
                    a \in Keys, b \in Keys, x \in Ors2}

\* The lists of patterns of the arms of a match: one or two arms of a family
\* of patterns that compare with each other, one of them a path, a literal or
\* a wildcard, or both of them or-patterns
PairsOf(rich, plain) ==
    {<<p>> : p \in rich} \cup {<<p, q>> : p \in rich, q \in plain}
    \cup {<<q, p>> : p \in rich, q \in plain}
\* tests/24: 5, 7 | 8 | 6, _
Test24 == <<PatInt(5), PatOr(<<PatInt(7), PatInt(8), PatInt(6)>>), PatWild>>
\* tests/25: 5, (8 | 9) | (6 | 7), _
Test25 ==
    <<PatInt(5),
      PatOr(<<PatParen(PatOr(<<PatInt(8), PatInt(9)>>)),
              PatParen(PatOr(<<PatInt(6), PatInt(7)>>))>>),
      PatWild>>
\* tests/31: TestStruct(0), TestStruct((5 | 6) | (1 | 2)), _
Test31 ==
    <<PatTupleStruct(<<1>>, {}, <<PatInt(0)>>),
      PatTupleStruct(<<1>>, {},
                     <<PatOr(<<PatParen(PatOr(<<PatInt(5), PatInt(6)>>)),
                               PatParen(PatOr(<<PatInt(1), PatInt(2)>>))>>)>>),
      PatWild>>
\* The or-patterns of the documentation: 0 | 5, (1 | 2) | (3 | 4), _
DocParenthesized ==
    <<PatOr(<<PatInt(0), PatInt(5)>>),
      PatOr(<<PatParen(PatOr(<<PatInt(1), PatInt(2)>>)),
              PatParen(PatOr(<<PatInt(3), PatInt(4)>>))>>),
      PatWild>>

PatLists == AtomLists \cup PairsOf(IntPats, Atoms) \cup {<<p, q>> : p \in Ors2, q \in Ors2}
            \cup PairsOf(StructPats \cup OrsOfStructs, PathPats)
            \cup {Test24, Test25, Test31, DocParenthesized}

\* Binding patterns [ref [mut]] ident @ sub, sub a literal or a parenthesised
\* or-pattern; alone, and as the first or the second alternative of an
\* or-pattern
Bindings ==
    {PatIdent(1, flags, <<sub>>) :
        flags \in {{}, {"ref"}, {"ref", "mut"}}, sub \in IntAtoms \cup ParenOrs}
BindingPats ==
    Bindings \cup {PatOr(<<b, a>>) : b \in Bindings, a \in IntAtoms}
             \cup {PatOr(<<a, b>>) : b \in Bindings, a \in IntAtoms}
\* tests/12: ref num @ 1, 0, _
Test12 == <<PatIdent(1, {"ref"}, <<PatInt(1)>>), PatInt(0), PatWild>>
BindingPatLists == PairsOf(BindingPats, Atoms) \cup {Test12}

\* The arms of a match with these patterns, no guards and no match in a body
ArmsOf(pats) == [i \in 1..Len(pats) |-> Arm(Spanned(pats[i], <<i>>), FALSE, <<>>)]

\* The attribute lists of a match expression
SortedAttr == <<"sorted">>
AttrLists == {<<>>, <<SortedAttr>>, <<<<"sorted", "sorted">>>>, <<<<"allow">>, SortedAttr>>}

\* A function with one #[sorted] match
SingleMatchFns ==
    {ItemFn(<<ExprMatch(<<SortedAttr>>, ArmsOf(pats))>>) : pats \in PatLists \cup BindingPatLists}

\* Matches of two literal arms, with and without #[sorted]
SimpleMatches ==
    {ExprMatch(attrs, ArmsOf(<<PatInt(a), PatInt(b)>>)) :
        attrs \in AttrLists, a \in 1..2, b \in 1..2}

\* The match with another match in the body of its arm i
Nest(outer, i, inner) == [outer EXCEPT !.arms[i].body = <<inner>>]

\* Functions with several matches: siblings, or one in an arm of another
SeveralMatchFns ==
    {ItemFn(<<x, y>>) : x \in SimpleMatches, y \in SimpleMatches}
    \cup {ItemFn(<<Nest(x, i, y)>>) : x \in SimpleMatches, y \in SimpleMatches, i \in 1..2}
    \cup {ItemFn(<<Nest(x, 1, y), z>>) :
             x \in SimpleMatches, y \in SimpleMatches,
             z \in {m \in SimpleMatches : m.attrs = <<SortedAttr>>}}

SortedItems == {ItemEnum(v) : v \in IdentLists} \cup {ItemStruct}
CheckedItems == SingleMatchFns \cup SeveralMatchFns

\* An item of the source with #[sorted] or #[sorted::check] on it
InitSorted ==
    /\ item \in SortedItems \cup CheckedItems
    /\ fields = <<>>
    /\ base = 0
    /\ data = <<>>
    /\ pc = "source"
    /\ ret = [op |-> "source", field |-> 0, value |-> 0, panic |-> ""]
    /\ passed = <<>>
    /\ errors = {}
    /\ output = NoItem

\* #[sorted] on an item
sorted ==
    LET r == look_for_unsorted_enum_variants(item)
    IN  /\ pc = "source" /\ item.kind \in {"Enum", "Struct"}
        /\ output' = item
        /\ errors' = IF r.ok THEN {} ELSE {r.err}
        /\ pc' = "expanded"
        /\ ret' = [op |-> "sorted", field |-> 0, value |-> 0, panic |-> ""]
        /\ UNCHANGED <<data, fields, base, passed, item>>

\* #[sorted::check] on a function
check ==
    LET r == look_for_unsorted_match_patterns(item)
    IN  /\ pc = "source" /\ item.kind = "Fn"
        /\ output' = IF r.panic # "" THEN NoItem ELSE r.output
        /\ errors' = IF r.panic = "" /\ r.error.some THEN {r.error.e} ELSE {}
        /\ pc' = IF r.panic # "" THEN "panicked" ELSE "expanded"
        /\ ret' = [op |-> "check", field |-> 0, value |-> 0, panic |-> r.panic]
        /\ UNCHANGED <<data, fields, base, passed, item>>

NextSorted == sorted \/ check

\* The two macros of the sorted crate, each on the items it can stand on
SpecSorted == InitSorted /\ [][NextSorted]_vars

\* ------------------------------------------------ the seq crate's inputs
\* The body of a seq! as its author means it: plain tokens, the loop
\* identifier N, an identifier pasted of pieces with `~`, a group and a
\* section #(...)*
Node(node, tok, pieces, children) ==
    [node |-> node, tok |-> tok, pieces |-> pieces, children |-> children]

Plain(tok) == Node("Plain", tok, <<>>, <<>>)
Loop == Node("Loop", Punct(""), <<>>, <<>>)
Paste(pieces) == Node("Paste", Punct(""), pieces, <<>>)
Grp(delim, children) == Node("Grp", Punct(delim), <<>>, children)
Sec(children) == Node("Sec", Punct(""), <<>>, children)

\* The pieces of a pasted identifier: an identifier, an integer literal, N
Fixed(name) == [piece |-> "Ident", text |-> name]
Digits(text) == [piece |-> "Literal", text |-> text]
Index == [piece |-> "N", text |-> "N"]

\* The name of the loop identifier
N == "N"

RECURSIVE RenderPieces(_, _)
\* The tokens of a pasted identifier: its pieces with `~` between them, `~~`
\* between N and N
RenderPieces(pieces, k) ==
    IF k > Len(pieces) THEN <<>>
    ELSE (IF k = 1 THEN <<>>
          ELSE IF pieces[k].piece = "N" /\ pieces[k - 1].piece = "N"
          THEN <<Punct("~"), Punct("~")>>
          ELSE <<Punct("~")>>)
           \o <<IF pieces[k].piece = "Literal" THEN Literal(pieces[k].text, "Int")
                ELSE Ident(pieces[k].text)>>
           \o RenderPieces(pieces, k + 1)

RECURSIVE Render(_)
\* The token stream the author writes for a body
Render(nodes) ==
    IF nodes = <<>> THEN <<>>
    ELSE LET n == Head(nodes)
         IN  (IF n.node = "Plain" THEN <<n.tok>>
              ELSE IF n.node = "Loop" THEN <<Ident(N)>>
              ELSE IF n.node = "Paste" THEN RenderPieces(n.pieces, 1)
              ELSE IF n.node = "Grp" THEN <<Group(n.tok.text, Render(n.children))>>
              ELSE <<Punct("#"), Group(Parenthesis, Render(n.children)), Punct("*")>>)
               \o Render(Tail(nodes))

\* Largest start and largest end of a generated range
MaxStart == 2
MaxEnd == 3
\* Largest number of nodes of a generated flat body
MaxFlat == 2

RangeKinds ==
    {Exclusive(a, b) : a \in 0..MaxStart, b \in 0..MaxEnd}
      \cup {Inclusive(a, b) : a \in 0..MaxStart, b \in 0..MaxEnd}

\* Nodes without N, and nodes with it
FixedNodes == {Plain(Ident("a")), Plain(Punct(","))}
IndexNodes == {Loop, Paste(<<Fixed("f"), Index>>), Paste(<<Fixed("f"), Index, Fixed("g")>>),
               Paste(<<Fixed("f"), Index, Index>>)}

\* The sequences of at most n elements of S
UpTo(S, n) == UNION {[1..k -> S] : k \in 0..n}

\* Every body of at most one node, and the bodies of at most MaxFlat of the
\* nodes a, N and f~N
FlatBodies ==
    UpTo(FixedNodes \cup IndexNodes, 1)
      \cup UpTo({Plain(Ident("a")), Loop, Paste(<<Fixed("f"), Index>>)}, MaxFlat)
FixedBodies == UpTo(FixedNodes, MaxFlat)

\* Bodies with one section between two nodes, in a group, two sections, and
\* a section within a section
SectionBodies ==
    {x \o <<Sec(l)>> \o y : x \in UpTo({Plain(Ident("a")), Loop}, 1),
                            y \in UpTo({Plain(Punct(","))}, 1), l \in FlatBodies}
      \cup {<<Grp(Brace, x \o <<Sec(l)>>)>> :
              x \in UpTo({Plain(Ident("a")), Loop}, 1),
              l \in UpTo(FixedNodes \cup IndexNodes, 1)}
      \cup {<<Sec(l), Plain(Punct(",")), Sec(m)>> : l \in UpTo(IndexNodes, 1),
                                                    m \in UpTo(IndexNodes, 1)}
      \cup {x \o <<Sec(y \o <<Sec(l)>>)>> : x \in UpTo({Loop}, 1),
                                            y \in UpTo(IndexNodes, 1),
                                            l \in UpTo(IndexNodes, 1)}

\* seq!(_ in 0..4 { println!("hello"); })
DocHelloBody ==
    <<Plain(Ident("println")), Plain(Punct("!")),
      Grp(Parenthesis, <<Plain(Literal("hello", "Str"))>>), Plain(Punct(";"))>>

\* fn foo~N() -> u32 { N }  fn test~N~bar() ...  fn baz~N~~N() ...
DocIdentsBody ==
    <<Plain(Ident("fn")), Paste(<<Fixed("foo"), Index>>), Grp(Parenthesis, <<>>),
      Grp(Brace, <<Loop>>),
      Plain(Ident("fn")), Paste(<<Fixed("test"), Index, Fixed("bar")>>),
      Grp(Parenthesis, <<>>), Grp(Brace, <<Loop, Plain(Punct("*")), Plain(Literal("2", "Int"))>>),
      Plain(Ident("fn")), Paste(<<Fixed("baz"), Index, Index>>), Grp(Parenthesis, <<>>),
      Grp(Brace, <<Loop>>)>>

\* #[repr(u8)] enum Irq { #(Irq~N = N,)* }, N in 1..=4
DocIrqBody ==
    <<Plain(Punct("#")),
      Grp("[", <<Plain(Ident("repr")), Grp(Parenthesis, <<Plain(Ident("u8"))>>)>>),
      Plain(Ident("enum")), Plain(Ident("Irq")),
      Grp(Brace, <<Sec(<<Paste(<<Fixed("Irq"), Index>>), Plain(Punct("=")), Loop,
                         Plain(Punct(","))>>)>>)>>

\* tests/11: (#("abc",)*) with _ in 0..4
Test11Body ==
    <<Grp(Parenthesis, <<Sec(<<Plain(Literal("abc", "Str")), Plain(Punct(","))>>)>>)>>

\* tests/12: test~N~test~N~test, test~N~~N~~N, test~N~45~N
Test12Body ==
    <<Paste(<<Fixed("test"), Index, Fixed("test"), Index, Fixed("test")>>),
      Paste(<<Fixed("test"), Index, Index, Index>>),
      Paste(<<Fixed("test"), Index, Digits("45"), Index>>), Loop>>

\* tests/13: two enums with a section each, and a section in a section in a
\* module pasted of N
Test13First ==
    <<Plain(Ident("enum")), Plain(Ident("Test0")),
      Grp(Brace, <<Sec(<<Paste(<<Fixed("Variant"), Index>>), Plain(Punct(","))>>)>>),
      Plain(Ident("enum")), Plain(Ident("Test1")),
      Grp(Brace, <<Sec(<<Paste(<<Fixed("Variant"), Index>>), Plain(Punct(","))>>)>>)>>
Test13Second ==
    <<Plain(Ident("mod")), Paste(<<Fixed("test"), Index>>),
      Grp(Brace,
          <<Sec(<<Plain(Ident("enum")), Paste(<<Fixed("Test"), Index>>),
                  Grp(Brace, <<Sec(<<Paste(<<Fixed("Variant"), Index>>),
                                     Plain(Punct(","))>>)>>)>>)>>)>>

\* The bodies of the documentation and of the tests that name N, with their
\* ranges
DocBodies ==
    {<<DocIdentsBody, Exclusive(0, 2)>>, <<DocIrqBody, Inclusive(1, 4)>>,
     <<Test12Body, Inclusive(2, 2)>>, <<Test13First, Inclusive(0, 1)>>,
     <<Test13Second, Inclusive(0, 1)>>}

\* An invocation of seq!: the input of the macro, and the body as its author
\* means it
Invocation(ident, range_kind, body) ==
    [kind |-> "Seq", seq_data |-> SeqData(ident, range_kind, Render(body)), body |-> body]

\* The invocations of seq!: every body with N as the identifier, the bodies
\* without N also with _
SeqItems ==
    {Invocation(SomeIdent(N), r, b) : b \in FlatBodies \cup SectionBodies, r \in RangeKinds}
      \cup {Invocation(NoIdent, r, b) :
              b \in FixedBodies \cup {<<Sec(l)>> : l \in FixedBodies}, r \in RangeKinds}
      \cup {Invocation(SomeIdent(N), d[2], d[1]) : d \in DocBodies}
      \cup {Invocation(NoIdent, Exclusive(0, 4), Test11Body),
            Invocation(NoIdent, Exclusive(0, 4), DocHelloBody)}

InitSeq ==
    /\ item \in SeqItems
    /\ fields = <<>>
    /\ base = 0
    /\ data = <<>>
    /\ pc = "source"
    /\ ret = [op |-> "source", field |-> 0, value |-> 0, panic |-> ""]
    /\ passed = <<>>
    /\ errors = {}
    /\ output = NoItem

\* seq!(ident in range { body })
seq ==
    /\ pc = "source" /\ item.kind = "Seq"
    /\ output' = [kind |-> "TokenStream", stream |-> seq_macro(item.seq_data)]
    /\ pc' = "expanded"
    /\ ret' = [op |-> "seq", field |-> 0, value |-> 0, panic |-> ""]
    /\ UNCHANGED <<data, fields, base, passed, item, errors>>

NextSeq == seq

\* The seq! macro on the invocations of the model
SpecSeq == InitSeq /\ [][NextSeq]_vars

\* ------------------------------------------------------------- properties
RECURSIVE FieldBits(_, _, _)
\* The number whose bit i is bit o+i of the storage, for i in 0..w-1
FieldBits(storage, o, w) ==
    IF w = 0 THEN 0
    ELSE StorageBit(storage, o) + (2 * FieldBits(storage, o + 1, w - 1))

\* Field k lies within the storage
InBounds(k) == bit_index(k) + fields[k].BITS <= 8 * Len(data)

MyFourBytes == <<BSpecifier(1), BSpecifier(3), BSpecifier(4), BSpecifier(24)>>
MyBitfield == <<EnumSpecifier(SmallPrime), EnumSpecifier(SmallPrime)>>

\* C1: a value below 2^w written to a B<w> field at any bit index that fits
\* is the value a later get of that field returns, whatever the storage held
\* before.
C1_RoundTrip ==
    \A k \in 1..Len(fields) :
        (/\ pc = "idle" /\ ret.op = "get" /\ ret.field = k
         /\ fields[k].kind = "B"
         /\ passed[k].some
         /\ passed[k].v < Pow2(fields[k].BITS))
        => ret.value = passed[k].v

\* A width-3 field at bit 6, crossing from byte 0 into byte 1, set to 5 and
\* read back.
C1_Witness ==
    /\ pc = "idle" /\ ret.op = "get"
    /\ fields = <<BSpecifier(3)>> /\ base = 6
    /\ passed[1].some /\ passed[1].v = 5
    /\ data[3] = 165

\* C2: a set changes no bit of the storage outside the bits
\* [bit_index, bit_index + BITS) of the field it sets.
C2_NonInterference ==
    [][ret'.op = "set" =>
         \A j \in 0..((8 * Len(data)) - 1) :
             (j < bit_index(ret'.field)
                \/ j >= bit_index(ret'.field) + fields[ret'.field].BITS)
             => StorageBit(data', j) = StorageBit(data, j)]_vars

\* A width-3 field at bit 6 of a storage filled with 0xA5 has been set: byte 1
\* changed in its bit 0 only and byte 2 was not touched.
C2_Witness ==
    /\ pc = "idle" /\ ret.op = "set"
    /\ fields = <<BSpecifier(3)>> /\ base = 6
    /\ data[2] = 164 /\ data[3] = 165

\* C3: get of a B<w> field returns the sum of bit(o+i) * 2^i, bit j of the
\* storage being bit j%8 of byte j/8.
C3_LittleEndianRead ==
    \A k \in 1..Len(fields) :
        (/\ pc = "idle" /\ ret.op = "get" /\ ret.field = k
         /\ fields[k].kind = "B")
        => ret.value = FieldBits(data, bit_index(k), fields[k].BITS)

\* A 10-bit field at bit 7 read from three bytes of 0xA5 that were never
\* written.
C3_Witness ==
    /\ pc = "idle" /\ ret.op = "get"
    /\ fields = <<BSpecifier(10)>> /\ base = 7
    /\ ~passed[1].some
    /\ data = <<165, 165, 165>>
    /\ ret.value > 255

\* C10: a get or set of a field that does not end within the storage panics
\* with an index out of bounds; it never returns.
C10_FailFast ==
    \A k \in 1..Len(fields) :
        (ret.op # "new" /\ ret.field = k /\ ~InBounds(k))
        => (pc = "panicked" /\ ret.panic = IndexOutOfBounds)

\* A set of a 10-bit field at bit 20 of a 3-byte storage has panicked.
C10_Witness ==
    /\ pc = "panicked" /\ ret.op = "set"
    /\ fields = <<BSpecifier(10)>> /\ base = 20
    /\ ret.panic = IndexOutOfBounds

\* The bit pattern field k of a struct holds according to the setter calls
\* made so far: zero after new(), else the low BITS bits of the number passed,
\* u8::from of the bool passed, or the discriminant of the variant passed.
StoredPattern(k) ==
    IF ~passed[k].some THEN 0
    ELSE IF fields[k].kind = "B" THEN passed[k].v % Pow2(fields[k].BITS)
    ELSE IF fields[k].kind = "bool" THEN (IF passed[k].v THEN 1 ELSE 0)
    ELSE fields[k].variants[passed[k].v]

RECURSIVE SumOfWidths(_, _)
\* The sum of the widths of the first n fields
SumOfWidths(specs, n) ==
    IF n = 0 THEN 0 ELSE SumOfWidths(specs, n - 1) + specs[n].BITS

\* What get_k returns in the current state
Getter(k) == SpecifierGet(fields[k], data, bit_index(k))

\* The value an enum getter returns for the bit pattern `raw`: the variant
\* with that discriminant, or Unrecognized(raw) for an enum with set_bits.
SymbolFor(spec, raw, value) ==
    LET matches == {i \in 1..Len(spec.variants) : spec.variants[i] = raw}
    IN  IF matches # {}
        THEN /\ value.tag = (IF spec.open THEN "Ok" ELSE "variant")
             /\ matches = {value.variant}
        ELSE value.tag = "Err" /\ value.raw = raw

\* C4 as stated: after new() and set_d(0xABCDEF) on the struct of widths
\* 1,3,4,24, bytes 1, 2, 3 of the storage are 0xAB, 0xCD, 0xEF and byte 0 is 0.
C4_Original ==
    (fields = MyFourBytes /\ passed = <<Never, Never, Never, Passed(Probe)>>)
    => (data[1] = 0 /\ data[2] = 171 /\ data[3] = 205 /\ data[4] = 239)

\* C4 amended: after new() and set_d(0xABCDEF) on the struct of widths
\* 1,3,4,24, bytes 1, 2, 3 of the storage are 0xEF, 0xCD, 0xAB (the least
\* significant byte of the value first) and byte 0 is 0.
C4_Scenario ==
    (fields = MyFourBytes /\ passed = <<Never, Never, Never, Passed(Probe)>>)
    => data = <<0, 239, 205, 171>>

\* set_d(0xABCDEF) was the only setter called on a new MyFourBytes.
C4_Witness ==
    /\ fields = MyFourBytes
    /\ passed = <<Never, Never, Never, Passed(Probe)>>
    /\ pc = "idle" /\ ret.op = "set" /\ ret.field = 4

\* C5 as stated: after new() and any setter calls, every getter returns the
\* value last passed to its setter, or zero (false, the zero pattern) if the
\* setter was never called, and the storage keeps its length.
C5_Original ==
    pc = "idle" =>
      /\ Len(data) = SumOfWidths(fields, Len(fields)) \div 8
      /\ \A k \in 1..Len(fields) :
           /\ Getter(k).panic = ""
           /\ fields[k].kind = "B" =>
                Getter(k).value = (IF passed[k].some THEN passed[k].v ELSE 0)
           /\ fields[k].kind = "bool" =>
                Getter(k).value = (IF passed[k].some THEN passed[k].v ELSE FALSE)
           /\ fields[k].kind = "enum" =>
                IF passed[k].some
                THEN /\ Getter(k).value.variant = passed[k].v
                     /\ Getter(k).value.tag = (IF fields[k].open THEN "Ok" ELSE "variant")
                ELSE SymbolFor(fields[k], 0, Getter(k).value)

\* C5 amended: a B<w> getter returns the value last passed to its setter
\* reduced modulo 2^w (the value itself when it is below 2^w); the rest as
\* stated.
C5_PerFieldIndependence ==
    pc = "idle" =>
      /\ Len(data) = SumOfWidths(fields, Len(fields)) \div 8
      /\ \A k \in 1..Len(fields) :
           /\ Getter(k).panic = ""
           /\ fields[k].kind = "B" =>
                Getter(k).value =
                    (IF passed[k].some THEN passed[k].v % Pow2(fields[k].BITS) ELSE 0)
           /\ fields[k].kind = "bool" =>
                Getter(k).value = (IF passed[k].some THEN passed[k].v ELSE FALSE)
           /\ fields[k].kind = "enum" =>
                IF passed[k].some
                THEN /\ Getter(k).value.variant = passed[k].v
                     /\ Getter(k).value.tag = (IF fields[k].open THEN "Ok" ELSE "variant")
                ELSE SymbolFor(fields[k], 0, Getter(k).value)

\* get_b returned 5 on a MyFourBytes whose a, c and d were set after b, c to
\* a value that does not fit its 4 bits.
C5_Witness ==
    /\ fields = MyFourBytes
    /\ pc = "idle" /\ ret.op = "get" /\ ret.field = 2 /\ ret.value = 5
    /\ passed[1] = Passed(1) /\ passed[2] = Passed(5)
    /\ passed[3] = Passed(239) /\ passed[4] = Passed(Probe)

\* C6: field k of a struct occupies exactly the bits from the sum of the
\* widths of the fields before it up to that sum plus its own width: these
\* bits, least significant first, are the pattern last stored in field k.  For
\* widths 1,3,4,24: a is bit 0 of byte 0, b bits 1-3, c bits 4-7, and d is
\* bytes 1..3 with its least significant bit at bit 0 of byte 1.
C6_Layout ==
    pc = "idle" =>
      /\ \A k \in 1..Len(fields) :
           FieldBits(data, SumOfWidths(fields, k - 1), fields[k].BITS) = StoredPattern(k)
      /\ fields = MyFourBytes =>
           /\ data[1] = StoredPattern(1) + (2 * StoredPattern(2)) + (16 * StoredPattern(3))
           /\ data[2] + (256 * data[3]) + (65536 * data[4]) = StoredPattern(4)

\* All four fields of a MyFourBytes hold a nonzero pattern.
C6_Witness ==
    /\ fields = MyFourBytes /\ pc = "idle"
    /\ \A k \in 1..4 : passed[k].some
    /\ passed[1].v = 1 /\ passed[2].v = 5 /\ passed[3].v = 8 /\ passed[4].v = Probe
    /\ data = <<139, 239, 205, 171>>

\* C7: the getter of an enum without set_bits that compiled returns, for
\* every content of its bits, the one variant whose discriminant is that
\* content; its unreachable!() arm is never reached.
C7_ExhaustiveTotal ==
    \A k \in 1..Len(fields) :
        (/\ ret.op = "get" /\ ret.field = k
         /\ fields[k].kind = "enum" /\ ~fields[k].open
         /\ InBounds(k))
        => /\ pc = "idle" /\ ret.panic = ""
           /\ ret.value.tag = "variant"
           /\ SymbolFor(fields[k], FieldBits(data, bit_index(k), fields[k].BITS), ret.value)

\* The 8-variant, 3-bit DeliveryMode decoded from bits 5..7 of 0xA5 (0b101).
C7_Witness ==
    /\ pc = "idle" /\ ret.op = "get"
    /\ fields = <<EnumSpecifier(DeliveryMode)>> /\ base = 5
    /\ data = <<165, 165, 165>>
    /\ ret.value.variant = 6

\* C8: the getter of an enum with set_bits never panics: it returns Ok of the
\* variant whose discriminant is the content of its bits if there is one, and
\* otherwise Err(Unrecognized) of exactly that content; SmallPrime
\* ({2,3,5,7,11,13} on 4 bits) read from zeroed storage is Unrecognized(0).
C8_OpenDecode ==
    \A k \in 1..Len(fields) :
        (/\ ret.op = "get" /\ ret.field = k
         /\ fields[k].kind = "enum" /\ fields[k].open
         /\ InBounds(k))
        => /\ pc = "idle" /\ ret.panic = ""
           /\ SymbolFor(fields[k], FieldBits(data, bit_index(k), fields[k].BITS), ret.value)
           /\ (fields[k] = EnumSpecifier(SmallPrime) /\ \A i \in 1..Len(data) : data[i] = 0)
              => (ret.value.tag = "Err" /\ ret.value.raw = 0)

\* SmallPrime read from zeroed storage.
C8_Witness ==
    /\ pc = "idle" /\ ret.op = "get"
    /\ fields = <<EnumSpecifier(SmallPrime)>> /\ base = 0
    /\ data = <<0, 0, 0>>
    /\ ret.value.tag = "Err" /\ ret.value.raw = 0

\* C9: once a variant was passed to the setter of an enum field, the bits of
\* the field are the discriminant of that variant and the getter returns the
\* variant (Ok of it for an enum with set_bits), at any bit index, whatever
\* the storage held before and whatever other fields were set since.
C9_SymbolRoundTrip ==
    pc = "idle" =>
      \A k \in 1..Len(fields) :
          (fields[k].kind = "enum" /\ passed[k].some)
          => /\ FieldBits(data, bit_index(k), fields[k].BITS)
                  = fields[k].variants[passed[k].v]
             /\ Getter(k).panic = ""
             /\ Getter(k).value.variant = passed[k].v
             /\ Getter(k).value.tag = (IF fields[k].open THEN "Ok" ELSE "variant")

\* small_prime0 is Seven and small_prime1, in the other half of the same
\* byte, was set to Thirteen afterwards; get_small_prime0 returned Seven.
C9_Witness ==
    /\ fields = MyBitfield /\ pc = "idle"
    /\ passed[1] = Passed(4) /\ passed[2] = Passed(6)
    /\ data = <<215>>
    /\ ret.op = "get" /\ ret.field = 1
    /\ ret.value.tag = "Ok" /\ ret.value.variant = 4

\* C11: a set of a B<w> field with a value of its SetType that is 2^w or more
\* returns without a panic, leaves the low w bits of the value in the bits of
\* the field (a get then returns value mod 2^w), and changes no other bit.
C11_OversizedMasked ==
    [][\A k \in 1..Len(fields) :
         (/\ ret'.op = "set" /\ ret'.field = k
          /\ fields[k].kind = "B"
          /\ passed'[k].v >= Pow2(fields[k].BITS)
          /\ InBounds(k))
         => /\ pc' = "idle" /\ ret'.panic = ""
            /\ FieldBits(data', bit_index(k), fields[k].BITS)
                 = passed'[k].v % Pow2(fields[k].BITS)
            /\ BGet(data', fields[k].BITS, bit_index(k)).panic = ""
            /\ BGet(data', fields[k].BITS, bit_index(k)).value
                 = passed'[k].v % Pow2(fields[k].BITS)
            /\ \A j \in 0..((8 * Len(data)) - 1) :
                 (j < bit_index(k) \/ j >= bit_index(k) + fields[k].BITS)
                 => StorageBit(data', j) = StorageBit(data, j)]_vars

\* 0xEF was set on a width-3 field at bit 6 of a storage filled with 0xA5:
\* the field holds 7 and the other bits of bytes 0 and 1 are those of 0xA5.
C11_Witness ==
    /\ pc = "idle" /\ ret.op = "set"
    /\ fields = <<BSpecifier(3)>> /\ base = 6
    /\ passed[1] = Passed(239)
    /\ data = <<229, 165, 165>>

\* C12: bool is the specifier B1 with false = 0 and true = 1.  A get of a
\* bool field returns true iff the bit at its bit index is 1, which is what B1
\* returns as 1; a set makes that bit 1 for true and 0 for false, changes no
\* other bit and leaves the storage that B1::set of 1 or 0 leaves; the two
\* panic on the same calls.
C12_BoolIsB1 ==
    [][\A k \in 1..Len(fields) :
         (ret'.field = k /\ fields[k].kind = "bool") =>
           LET o == bit_index(k)
           IN  /\ ret'.op = "get" =>
                    /\ ret'.panic = BGet(data, 1, o).panic
                    /\ ret'.panic = "" =>
                         /\ ret'.value = (StorageBit(data, o) = 1)
                         /\ ret'.value = (BGet(data, 1, o).value = 1)
               /\ ret'.op = "set" =>
                    /\ ret'.panic = BSet(data, 1, o, U8FromBool(passed'[k].v)).panic
                    /\ data' = BSet(data, 1, o, U8FromBool(passed'[k].v)).data
                    /\ ret'.panic = "" =>
                         /\ StorageBit(data', o) = U8FromBool(passed'[k].v)
                         /\ \A j \in 0..((8 * Len(data)) - 1) :
                              j # o => StorageBit(data', j) = StorageBit(data, j)]_vars

\* A bool at bit 13 of a storage filled with 0xA5 was set to false and read
\* back: bit 5 of byte 1 was cleared, nothing else changed.
C12_Witness ==
    /\ pc = "idle" /\ ret.op = "get"
    /\ fields = <<BoolSpecifier>> /\ base = 13
    /\ passed[1] = Passed(FALSE)
    /\ data = <<165, 133, 165>>
    /\ ret.value = FALSE

\* The values of the bits, resp. set_bits, attributes in a list of attributes
BitsOf(attrs) == SelectSeq(attrs, is_bits_attribute)
SetBitsOf(attrs) == SelectSeq(attrs, is_set_bits_attribute)

Messages(errs) == {e.msg : e \in errs}

\* The struct item has been through #[bitfield], resp. the enum item through
\* the derive
Built == pc # "source" /\ item.kind = "struct"
Derived == pc # "source" /\ item.kind = "enum"

\* The sum of the widths of the fields of the struct item
ItemBits == SumOfWidths(field_types(item), Len(item.fields))

\* C13: a struct whose field widths do not sum to a multiple of 8 (33 bits,
\* say) is rejected and no storage exists; a struct of named or unnamed fields
\* without bits attributes whose widths do sum to a multiple of 8 is accepted;
\* the storage of an accepted struct has exactly total_bits/8 bytes, all zero
\* after new().
C13_MultipleOf8 ==
    Built =>
      /\ ItemBits % 8 # 0 => (pc = "rejected" /\ data = <<>> /\ errors # {})
      /\ (/\ ItemBits % 8 = 0 /\ item.shape # "unit" /\ item.attrs = <<>>
          /\ \A k \in 1..Len(item.fields) : item.fields[k].attrs = <<>>)
         => (pc # "rejected" /\ errors = {})
      /\ "expected struct size to be a multiple of 8 bits" \in Messages(errors)
         => ItemBits % 8 # 0
      /\ pc # "rejected" =>
           /\ 8 * Len(data) = ItemBits
           /\ ret.op = "new" => \A i \in 1..Len(data) : data[i] = 0

\* The struct of widths 1, 3, 4, 24, 1 (33 bits) was rejected for its size.
C13_Witness ==
    /\ pc = "rejected" /\ item.kind = "struct"
    /\ field_types(item)
         = <<BSpecifier(1), BSpecifier(3), BSpecifier(4), BSpecifier(24), BSpecifier(1)>>
    /\ ItemBits = 33
    /\ errors = {CompileError("expected struct size to be a multiple of 8 bits",
                              At("struct", 0))}
    /\ data = <<>>

\* C14: an enum without set_bits whose number of variants is not a power of
\* two (0, 3, 5, ...) is rejected, with the error on the enum when it has no
\* attribute at all; one that is accepted has n >= 2 variants, n a power of
\* two, and BITS = log2(n).
C14_PowerOfTwoVariants ==
    (Derived /\ SetBitsOf(item.attrs) = <<>>) =>
      LET n == Len(item.variants)
      IN  /\ (\A e \in 0..n : Pow2(e) # n) =>
                /\ pc = "rejected"
                /\ item.attrs = <<>> =>
                     errors = {CompileError(
                                  "expected a number of variants which is a power of 2",
                                  At("enum", 0))}
          /\ pc # "rejected" =>
                /\ n >= 2
                /\ Pow2(fields[1].BITS) = n
                /\ ~fields[1].open

\* The enum of the five variants 0..4 was rejected.
C14_Witness ==
    /\ pc = "rejected"
    /\ item = EnumItem(<<>>, <<0, 1, 2, 3, 4>>)
    /\ errors = {CompileError("expected a number of variants which is a power of 2",
                              At("enum", 0))}

\* The width an enum item declares: its set_bits if it has one, else log2 of
\* its number of variants
DeclaredWidth ==
    IF SetBitsOf(item.attrs) # <<>> THEN SetBitsOf(item.attrs)[1].value
    ELSE CHOOSE w \in 0..Len(item.variants) : Pow2(w) = Len(item.variants)

\* An enum item without bits attribute that declares a width of at least 1:
\* one set_bits in 1..MAX_BITS, or a power of two >= 2 of variants
DeclaresWidth ==
    /\ BitsOf(item.attrs) = <<>>
    /\ \A i \in 1..Len(item.attrs) : is_set_bits_attribute(item.attrs[i])
    /\ \/ /\ Len(item.attrs) = 1
          /\ item.attrs[1].value \in 1..MAX_BITS
       \/ /\ item.attrs = <<>>
          /\ \E w \in 1..Len(item.variants) : Pow2(w) = Len(item.variants)

StructWellFormed ==
    item.shape # "unit" /\ ItemBits % 8 = 0

\* The enum item is well formed apart from its bits attributes
EnumWellFormed ==
    LET others == SelectSeq(item.attrs, LAMBDA a : ~is_bits_attribute(a) /\ a.name # "doc")
        n == Len(item.variants)
    IN  /\ \/ others = <<>> /\ \E w \in 1..n : Pow2(w) = n
           \/ /\ Len(others) = 1 /\ is_set_bits_attribute(others[1])
              /\ others[1].value \in 1..MAX_BITS
        /\ \A i \in 1..n :
             item.variants[i] >= 0 /\ item.variants[i] < Pow2(DeclaredWidth)

\* C16: an item with two bits attributes is rejected; a struct with
\* #[bits = N] is rejected unless N is the sum of its field widths, a field
\* with #[bits = N] unless N is the BITS of its type, an enum with #[bits = N]
\* unless N is its width, from set_bits or from the number of variants; an
\* item that is well formed apart from bits attributes, whose bits attributes
\* are single and state the right size, is accepted, as is one without bits
\* attributes.
C16_DocumentedBits ==
    /\ Built =>
         LET struct_bits == BitsOf(item.attrs)
             field_bits(k) == BitsOf(item.fields[k].attrs)
             wrong ==
               \/ Len(struct_bits) >= 2
               \/ Len(struct_bits) = 1 /\ struct_bits[1].value # ItemBits
               \/ \E k \in 1..Len(item.fields) :
                    \/ Len(field_bits(k)) >= 2
                    \/ /\ Len(field_bits(k)) = 1
                       /\ field_bits(k)[1].value # item.fields[k].ty.BITS
         IN  /\ wrong => pc = "rejected"
             /\ (StructWellFormed /\ ~wrong) => (pc # "rejected" /\ errors = {})
             /\ (struct_bits = <<>> /\ \A k \in 1..Len(item.fields) : field_bits(k) = <<>>)
                => \A e \in errors : e.at.kind = "struct" /\ e.at.index = 0
                                      /\ e.msg \in {"expected struct to have at least one field",
                                                    "expected struct size to be a multiple of 8 bits"}
    /\ Derived =>
         LET enum_bits == BitsOf(item.attrs)
             wrong ==
               \/ Len(enum_bits) >= 2
               \/ Len(enum_bits) = 1 /\ enum_bits[1].value # DeclaredWidth
         IN  /\ (EnumWellFormed /\ wrong) => pc = "rejected"
             /\ (EnumWellFormed /\ ~wrong) =>
                  (pc # "rejected" /\ errors = {} /\ fields[1].BITS = DeclaredWidth)
             /\ Len(enum_bits) >= 2 => pc = "rejected"

\* RedirectionTableEntry with #[bits = 8] on the struct and #[bits = 2] on the
\* bool field was rejected at that field.
C16_Witness ==
    /\ pc = "rejected"
    /\ item = StructOf("named", RedirectionTableEntry, <<Attr("bits", 8)>>, <<Attr("bits", 2)>>)
    /\ errors = {CompileError(
                    "expected field size to be equal to the value of the bits attribute",
                    At("field", 1))}

\* The bit sizes of u8, u16, u32, u64, u128
Ladder == {8, 16, 32, 64, 128}

\* The byte indexes of the bytes that hold the bits [o, o + w), ascending
BytesOf(o, w) == [i \in 1..((((o + w) - 1) \div 8) - (o \div 8) + 1) |-> (o \div 8) + i - 1]

\* C17: the value type of B<w>, for every w in 1..128, is the narrowest of
\* u8, u16, u32, u64, u128 with at least w bits (1-8 u8, 9-16 u16, 17-32 u32,
\* 33-64 u64, 65-128 u128).  The type plays no part in the bits accessed: a
\* get reads the bytes that hold the bits of the field and returns the number
\* these bits spell, which the type never truncates, and a set writes these
\* bytes with the low w bits of its argument.
C17_PrimitiveType ==
    /\ \A w \in 1..MAX_BITS :
         LET t == get_primitive_type(w)
         IN  /\ t \in Ladder /\ t >= w
             /\ \A u \in Ladder : u >= w => t <= u
             /\ t = (IF w <= 8 THEN 8 ELSE IF w <= 16 THEN 16 ELSE IF w <= 32 THEN 32
                     ELSE IF w <= 64 THEN 64 ELSE 128)
    /\ \A k \in 1..Len(fields) :
         (fields[k].kind = "B" /\ InBounds(k)) =>
           LET w == fields[k].BITS
               o == bit_index(k)
               r == BGet(data, w, o)
           IN  /\ r.panic = ""
               /\ r.touched = BytesOf(o, w)
               /\ r.value = FieldBits(data, o, w)
               /\ (ret.op = "get" /\ ret.field = k) => ret.value = r.value
               /\ \A v \in BValues(w) :
                    /\ BSet(data, w, o, v).touched = BytesOf(o, w)
                    /\ FieldBits(BSet(data, w, o, v).data, o, w) = LowBits(v, w)

\* get_d of a MyFourBytes returned 0xABCDEF, a u32, from bytes 1..3.
C17_Witness ==
    /\ fields = MyFourBytes /\ pc = "idle"
    /\ ret.op = "get" /\ ret.field = 4 /\ ret.value = Probe
    /\ get_primitive_type(fields[4].BITS) = 32
    /\ BGet(data, 24, bit_index(4)).touched = <<1, 2, 3>>

\* ------------------------------------------------ properties of the sorted crate
RECURSIVE MatchesIn(_)
\* The match expressions of a block: those of the sequence and those in the
\* bodies of their arms, to any depth
MatchesIn(exprs) ==
    UNION {{exprs[i]} \cup UNION {MatchesIn(exprs[i].arms[j].body) :
                                     j \in 1..Len(exprs[i].arms)} :
           i \in 1..Len(exprs)}

\* A match expression that carries #[sorted]
HasSortedAttribute(m) == \E i \in 1..Len(m.attrs) : is_sorted_attribute(m.attrs[i])

\* A match whose arms, or the alternatives of an or-pattern in them, are out of
\* order
OutOfOrder(m) ==
    /\ ~look_for_unsorted_match_arms(m.arms).ok
    /\ look_for_unsorted_match_arms(m.arms).err.msg = "should sort before"

\* #[sorted::check] has expanded the function
Checked == pc = "expanded" /\ ret.op = "check"

\* C18: the expansion of #[sorted::check] contains a compile error whenever a
\* #[sorted] match of the function, sibling or nested, has out-of-order arms,
\* wherever that match stands among the other #[sorted] matches.
C18_EveryUnsortedMatchReported ==
    (Checked /\ \E m \in MatchesIn(item.body) : HasSortedAttribute(m) /\ OutOfOrder(m))
        => errors # {}

\* #[sorted] has expanded the item
Sorted == pc = "expanded" /\ ret.op = "sorted"

\* A function whose only match is a #[sorted] match of literal and wildcard
\* arms
PlainMatch ==
    /\ item.kind = "Fn" /\ Len(item.body) = 1
    /\ HasSortedAttribute(item.body[1])
    /\ \A i \in 1..Len(item.body[1].arms) :
          /\ item.body[1].arms[i].pat.kind \in {"Lit", "Wild"}
          /\ item.body[1].arms[i].body = <<>>

\* The list the macro orders: the variants of the enum or the arms of the
\* match, each with its key and the tokens an error would point at
ListedItems ==
    IF item.kind = "Enum"
    THEN [i \in 1..Len(item.variants) |->
             [wild |-> FALSE, key |-> item.variants[i],
              tokens |-> VariantTokens(item.variants[i], i)]]
    ELSE [i \in 1..Len(item.body[1].arms) |->
             [wild |-> item.body[1].arms[i].pat.kind = "Wild",
              key |-> item.body[1].arms[i].pat.n,
              tokens |-> item.body[1].arms[i].pat]]

\* x is strictly smaller than y: a wildcard is greater than every value
Smaller(x, y) == ~x.wild /\ (y.wild \/ x.key < y.key)

\* The positions of the items smaller than their predecessor
Misplaced(l) == {i \in 2..Len(l) : Smaller(l[i], l[i - 1])}

\* The least number of a non-empty set of numbers
Least(S) == CHOOSE i \in S : \A j \in S : i <= j

\* `x should sort before y`: x the first item smaller than its predecessor, y
\* the first earlier item strictly greater than x
ExpectedError(l) ==
    LET x == Least(Misplaced(l))
        y == Least({j \in 1..(x - 1) : Smaller(l[x], l[j])})
    IN  SortedError("should sort before", l[x].tokens, l[y].tokens)

\* C19: the check of a list of variants or of literal and wildcard arms
\* succeeds iff no item is strictly smaller than its predecessor; otherwise the
\* one error is on the first such item x and names the first earlier item
\* strictly greater than x, a wildcard being greater than every value.
C19_OrderCheck ==
    ((Sorted /\ item.kind = "Enum") \/ (Checked /\ PlainMatch))
        => /\ errors = {} <=> Misplaced(ListedItems) = {}
           /\ Misplaced(ListedItems) # {} => errors = {ExpectedError(ListedItems)}

\* C19 witness: the arms 2, _, 1: `1 should sort before 2`
C19_Witness ==
    /\ Checked /\ PlainMatch
    /\ item.body[1].arms = ArmsOf(<<PatInt(2), PatWild, PatInt(1)>>)
    /\ errors = {SortedError("should sort before", Spanned(PatInt(1), <<3>>),
                             Spanned(PatInt(2), <<1>>))}

\* A function whose only match is a #[sorted] match
OneSortedMatch ==
    /\ item.kind = "Fn" /\ Len(item.body) = 1
    /\ HasSortedAttribute(item.body[1])
    /\ \A i \in 1..Len(item.body[1].arms) : item.body[1].arms[i].body = <<>>

RECURSIVE KeyOf(_)
\* The key an arm or an alternative is ordered by: the number of a literal,
\* the path of a path, a struct or a tuple-struct, and for an or-pattern the
\* key of its first alternative
KeyOf(pat) ==
    IF pat.kind \in {"Or", "Paren"} THEN KeyOf(pat.subs[1])
    ELSE IF pat.kind \in {"Path", "Struct", "TupleStruct"}
    THEN [wild |-> FALSE, key |-> pat.segs[1]]
    ELSE [wild |-> pat.kind = "Wild", key |-> pat.n]

RECURSIVE OrPatternsIn(_)
\* The or-patterns of a pattern, to any depth
OrPatternsIn(pat) ==
    (IF pat.kind = "Or" THEN {pat} ELSE {})
    \cup UNION {OrPatternsIn(pat.subs[i]) : i \in 1..Len(pat.subs)}

\* The patterns are in order: none is strictly smaller than its predecessor
InOrder(pats) == \A i \in 2..Len(pats) : ~Smaller(KeyOf(pats[i]), KeyOf(pats[i - 1]))

\* The patterns of the arms of the match
ArmPats == [i \in 1..Len(item.body[1].arms) |-> item.body[1].arms[i].pat]

RECURSIVE HasBinding(_)
\* The pattern holds a binding pattern ident @ sub
HasBinding(pat) ==
    \/ pat.kind = "Ident" /\ pat.subs # <<>>
    \/ \E i \in 1..Len(pat.subs) : HasBinding(pat.subs[i])

\* C20: a match without binding patterns is accepted iff its arms are in order, an or-pattern arm
\* standing for its first alternative and a struct or tuple-struct arm for its
\* path, and the alternatives of every or-pattern in the arms (top-level,
\* parenthesised, inside another or-pattern, inside the fields of a struct or
\* tuple-struct) are in order too.
C20_OrPatterns ==
    (Checked /\ OneSortedMatch /\ \A i \in 1..Len(ArmPats) : ~HasBinding(ArmPats[i]))
        => (errors = {} <=>
               /\ InOrder(ArmPats)
               /\ \A i \in 1..Len(ArmPats) :
                     \A o \in OrPatternsIn(ArmPats[i]) : InOrder(o.subs))

\* C20 witness: tests/31, whose arms are in order, is rejected for the
\* alternatives inside the field: `(1 | 2)` should sort before `(5 | 6)`
C20_Witness ==
    /\ Checked /\ OneSortedMatch
    /\ item.body[1].arms = ArmsOf(Test31)
    /\ InOrder(ArmPats)
    /\ errors = {SortedError("should sort before",
                             item.body[1].arms[2].pat.subs[1].subs[2],
                             item.body[1].arms[2].pat.subs[1].subs[1])}

RECURSIVE Unbound(_)
\* The pattern with every binding pattern ident @ sub replaced by sub
Unbound(pat) ==
    IF pat.kind = "Ident" /\ pat.subs # <<>> THEN Unbound(pat.subs[1])
    ELSE [pat EXCEPT !.subs = [i \in 1..Len(pat.subs) |-> Unbound(pat.subs[i])]]

\* The arms of the match, every binding pattern replaced by its sub-pattern
UnboundArms ==
    [i \in 1..Len(item.body[1].arms) |->
        [item.body[1].arms[i] EXCEPT !.pat = Unbound(@)]]

\* C21: a match whose arms hold binding patterns [ref [mut]] ident @ sub, as
\* a whole arm or as an alternative of an or-pattern, is accepted iff the
\* match with sub in the place of each binding pattern is accepted, and the
\* macro does not panic on it.
C21_BindingOrderedAsSub ==
    (pc # "source" /\ ret.op = "check" /\ OneSortedMatch
       /\ \E i \in 1..Len(ArmPats) : HasBinding(ArmPats[i]))
        => /\ pc = "expanded"
           /\ errors = {} <=> look_for_unsorted_match_arms(UnboundArms).ok

\* C27: after #[sorted::check] has expanded, no match expression of the
\* emitted function carries a #[sorted] attribute, nested matches included,
\* whether or not an ordering error was found.
C27_AttributeStripped ==
    Checked => \A m \in MatchesIn(output.body) : ~HasSortedAttribute(m)

\* ------------------------------------------- properties of the derive alone
\* The enum item declares the width w with #[set_bits = w]
Declares(w) == SetBitsOf(item.attrs) # <<>> /\ SetBitsOf(item.attrs)[1].value = w

\* 0 <= d < 2^w, for the discriminants of the model, which are below 2^31
InDeclaredRange(d, w) == d >= 0 /\ (w >= 31 \/ d < Pow2(w))

\* C24: for an enum that declares a width w in 1..128 the derive computes the
\* bound 2^w without overflow: it does not panic, and the enum is accepted
\* iff every discriminant d has 0 <= d < 2^w; with w = 128 every non-negative
\* discriminant is accepted.
C24_BoundWithoutOverflow ==
    \A w \in 1..MAX_BITS :
        (Derived /\ Declares(w)) =>
            /\ ret.panic = ""
            /\ pc # "rejected" <=>
                  \A i \in 1..Len(item.variants) : InDeclaredRange(item.variants[i], w)

\* C25: every enum the derive accepts has a width in 1..128.  An enum of one
\* variant without set_bits, an enum with set_bits = 0 and an enum that
\* declares more than 128 bits are rejected, and a rejected enum has no
\* specifier.
C25_WidthInRange ==
    Derived =>
        /\ pc # "rejected" => (fields # <<>> /\ fields[1].BITS \in 1..MAX_BITS)
        /\ pc = "rejected" => (fields = <<>> /\ errors # {})
        /\ (SetBitsOf(item.attrs) = <<>> /\ Len(item.variants) = 1) => pc = "rejected"
        /\ Declares(0) => pc = "rejected"
        /\ (\E w \in DeclaredWidths : w > MAX_BITS /\ Declares(w)) => pc = "rejected"

\* C25 witness: the enum of the one variant 0 is rejected, its width being 0
C25_Witness ==
    /\ Derived /\ pc = "rejected"
    /\ item = EnumItem(<<>>, <<0>>)
    /\ errors = {CompileError("bits should be greater than 0", At("enum", 0))}

\* ------------------------------------------- properties of the two loops
\* The iterations without the bits moved
Walk(steps) == [i \in 1..Len(steps) |-> [steps[i] EXCEPT !.bits = 0]]

RECURSIVE Consumed(_, _)
\* The number of bits of the first n iterations
Consumed(steps, n) ==
    IF n = 0 THEN 0 ELSE Consumed(steps, n - 1) + steps[n].bits_in_this_byte

\* The iterations access the bytes floor(o/8) .. floor((o+w-1)/8), each once
\* and in ascending order, in chunks of min(8 - offset in the byte, remaining)
\* bits that sum to w
WalksField(steps, o, w) ==
    /\ ByteIndexes(steps) = BytesOf(o, w)
    /\ \A i \in 1..Len(steps) :
         LET consumed == Consumed(steps, i - 1)
         IN  /\ steps[i].bit_index_in_value = consumed
             /\ steps[i].bit_offset = (o + consumed) % 8
             /\ steps[i].bits_in_this_byte = Min(8 - ((o + consumed) % 8), w - consumed)
    /\ Consumed(steps, Len(steps)) = w

\* The accesses of the state: the get and every set tried of every B field
\* that lies within the storage walk the field as its width and its bit
\* index alone say
AccessesWalkFields ==
    \A k \in 1..Len(fields) :
        (fields[k].kind = "B" /\ InBounds(k)) =>
            LET w == fields[k].BITS
                o == bit_index(k)
                r == BGet(data, w, o)
            IN  /\ r.panic = ""
                /\ Walk(r.steps) = Iterations(w, o, 0)
                /\ WalksField(r.steps, o, w)
                /\ \A v \in BValues(w) :
                     /\ BSet(data, w, o, v).panic = ""
                     /\ Walk(BSet(data, w, o, v).steps) = Iterations(w, o, 0)

\* Bit offsets within a byte
BitOffsets == 0..7

\* At every width in 1..128 and every bit offset the loop walks the field
EveryWidthWalked ==
    \A w \in 1..MAX_BITS : \A o \in BitOffsets : WalksField(Iterations(w, o, 0), o, w)

\* The numbers of bytes an access of a field of 128 bits touches
BytesOfWidest == {Len(Iterations(MAX_BITS, o, 0)) : o \in BitOffsets}

\* An access of w bits at the bit offset o touches ceil((o % 8 + w) / 8) bytes
ByteCounts ==
    \A w \in 1..MAX_BITS : \A o \in BitOffsets :
        Len(Iterations(w, o, 0)) = (o + w + 7) \div 8

\* C26 as stated: every get and set ends, having accessed the bytes
\* floor(o/8) .. floor((o+w-1)/8) once each in ascending order in chunks of
\* min(8 - offset in the byte, remaining) bits that sum to w, for every width
\* in 1..128; and an access of a field of 128 bits touches at most 16 bytes.
C26_Original ==
    /\ AccessesWalkFields
    /\ EveryWidthWalked
    /\ \A n \in BytesOfWidest : n <= 16

\* C26 amended: the same walk, and an access of a field of w bits at the bit
\* offset o touches ceil((o % 8 + w) / 8) bytes: 16 for a field of 128 bits
\* that starts at a byte, 17 for one that does not.
C26_ByteWalk ==
    /\ AccessesWalkFields
    /\ EveryWidthWalked
    /\ ByteCounts
    /\ BytesOfWidest = {16, 17}
    /\ Len(Iterations(MAX_BITS, 0, 0)) = 16

\* C26 witness: a get of a 10-bit field at bit 7 took 1, 8 and 1 bits from
\* bytes 0, 1 and 2.
C26_Witness ==
    /\ pc = "idle" /\ ret.op = "get"
    /\ fields = <<BSpecifier(10)>> /\ base = 7
    /\ BGet(data, 10, 7).touched = <<0, 1, 2>>
    /\ [i \in 1..3 |-> BGet(data, 10, 7).steps[i].bits_in_this_byte] = <<1, 8, 1>>

\* C28: a set that panics on an index out of bounds has not changed a byte
\* of the storage.
C28_FailedSetChangesNothing ==
    [][(ret'.op = "set" /\ ret'.panic = IndexOutOfBounds) => data' = data]_vars

\* The arithmetic of one iteration on a field of w bits held in a type of t
\* bits is in range: the bits consumed stay within w, the chunk is of 1..8
\* bits and ends within the byte, and bit_index_in_value, the amount of the
\* shift of get, is below t
InRange(step, w, t) ==
    /\ step.bit_index_in_value >= 0
    /\ step.bit_index_in_value + step.bits_in_this_byte <= w
    /\ step.bits_in_this_byte \in 1..8
    /\ step.bit_offset \in BitOffsets
    /\ step.bit_offset + step.bits_in_this_byte <= 8
    /\ step.bit_index_in_value < t

\* value >>= bits_in_this_byte runs after every iteration but the last: its
\* amount is below t
ShiftsInRange(steps, t) ==
    \A i \in 1..(Len(steps) - 1) : steps[i].bits_in_this_byte < t

\* The u8 operands of an iteration: the bits fit in a byte, and neither they
\* nor the mask lose a set bit when shifted left by the bit offset
FitsByte(step) ==
    /\ step.bits \in 0..255
    /\ step.bits * Pow2(step.bit_offset) <= 255
    /\ chunk_mask(step.bits_in_this_byte) * Pow2(step.bit_offset) <= 255

\* The control of the loops is in range at every width in 1..128 and every
\* bit offset
EveryWidthInRange ==
    \A w \in 1..MAX_BITS : \A o \in BitOffsets :
        LET steps == Iterations(w, o, 0)
        IN  /\ \A i \in 1..Len(steps) : InRange(steps[i], w, get_primitive_type(w))
            /\ ShiftsInRange(steps, get_primitive_type(w))

\* C29: no arithmetic of the loops of get and set overflows or shifts out of
\* range: in every iteration the bits consumed are at most BITS, the chunk is
\* of 1..8 bits with bit_offset + chunk <= 8, the shift << bit_index_in_value
\* of get and the shift >>= bits_in_this_byte of set are by less than the
\* bits of the type, and the bits taken from the value fit in a byte.
C29_ArithmeticInRange ==
    /\ EveryWidthInRange
    /\ \A k \in 1..Len(fields) :
         (fields[k].kind = "B" /\ InBounds(k)) =>
            LET w == fields[k].BITS
                o == bit_index(k)
                t == get_primitive_type(w)
                r == BGet(data, w, o)
            IN  /\ \A i \in 1..Len(r.steps) : InRange(r.steps[i], w, t) /\ FitsByte(r.steps[i])
                /\ r.value < Pow2(w)
                /\ \A v \in BValues(w) :
                     LET steps == BSet(data, w, o, v).steps
                     IN  /\ \A i \in 1..Len(steps) : InRange(steps[i], w, t) /\ FitsByte(steps[i])
                         /\ ShiftsInRange(steps, t)

\* C29 witness: a 10-bit field at bit 7 was set to a value of 16 bits that
\* 10 bits cannot hold; the set took 1, 8 and 1 bits of it.
C29_Witness ==
    /\ pc = "idle" /\ ret.op = "set"
    /\ fields = <<BSpecifier(10)>> /\ base = 7
    /\ passed[1].some /\ passed[1].v >= Pow2(10)
    /\ Len(BSet(data, 10, 7, passed[1].v).steps) = 3

\* The storage with its bit j inverted
Flip(storage, j) ==
    [storage EXCEPT ![(j \div 8) + 1] =
        IF BitOf(@, j % 8) = 1 THEN @ - Pow2(j % 8) ELSE @ + Pow2(j % 8)]

\* What the last get returned is what the same get returns on the storage
\* with any one bit outside the field inverted
ReadIsLocal ==
    (ret.op = "get" /\ InBounds(ret.field)) =>
        \A j \in 0..((8 * Len(data)) - 1) :
            (j < bit_index(ret.field)
               \/ j >= bit_index(ret.field) + fields[ret.field].BITS)
            => SpecifierGet(fields[ret.field], Flip(data, j),
                            bit_index(ret.field)).value = ret.value

\* C30: a get changes no byte of the storage, and what it returns depends on
\* the bits [bit_index, bit_index + BITS) of the storage alone: the same get
\* on the storage with any one bit outside the field inverted returns the
\* same.
C30_ReadPureLocal ==
    /\ [][ret'.op = "get" => data' = data]_vars
    /\ []ReadIsLocal

\* C30 witness: a get of a 3-bit field at bit 6 of bytes of 0xA5 returned 6,
\* and returns 6 with bit 5 inverted.
C30_Witness ==
    /\ pc = "idle" /\ ret.op = "get"
    /\ fields = <<BSpecifier(3)>> /\ base = 6
    /\ data = <<165, 165, 165>>
    /\ ret.value = 6
    /\ BGet(Flip(data, 5), 3, 6).value = 6

\* ------------------------------------------- properties of the seq crate
\* The indexes of a range in ascending order: a, a+1, ..., b-1 of a..b and
\* a, a+1, ..., b of a..=b; none if the range is empty
Indexes(range_kind) ==
    LET n == IF range_kind.kind = "Exclusive" THEN range_kind.end - range_kind.start
             ELSE (range_kind.end - range_kind.start) + 1
    IN  [k \in 1..(IF n > 0 THEN n ELSE 0) |-> range_kind.start + (k - 1)]

RECURSIVE Pasted(_, _)
\* The name pasted of pieces, N being i
Pasted(pieces, i) ==
    IF pieces = <<>> THEN ""
    ELSE (IF Head(pieces).piece = "N" THEN ToString(i) ELSE Head(pieces).text)
           \o Pasted(Tail(pieces), i)

RECURSIVE Copy(_, _, _)
RECURSIVE Copies(_, _, _, _)
\* Copy i of a body: N is the literal i, a pasted identifier is its name with
\* N being i, and a section is its copies for the indexes of the range
Copy(nodes, i, range_kind) ==
    IF nodes = <<>> THEN <<>>
    ELSE LET n == Head(nodes)
         IN  (IF n.node = "Plain" THEN <<n.tok>>
              ELSE IF n.node = "Loop" THEN <<Literal(ToString(i), "Int")>>
              ELSE IF n.node = "Paste" THEN <<Ident(Pasted(n.pieces, i))>>
              ELSE IF n.node = "Grp"
              THEN <<Group(n.tok.text, Copy(n.children, i, range_kind))>>
              ELSE Copies(n.children, Indexes(range_kind), 1, range_kind))
               \o Copy(Tail(nodes), i, range_kind)

\* The copies of a body for the indexes from the k-th on, one after the other
Copies(nodes, indexes, k, range_kind) ==
    IF k > Len(indexes) THEN <<>>
    ELSE Copy(nodes, indexes[k], range_kind) \o Copies(nodes, indexes, k + 1, range_kind)

RECURSIVE HasSection(_)
\* The body has a section, at any depth
HasSection(nodes) ==
    \E k \in 1..Len(nodes) : nodes[k].node = "Sec" \/ HasSection(nodes[k].children)

RECURSIVE NamesIndexOutside(_)
\* The body names N, alone or pasted, outside every section
NamesIndexOutside(nodes) ==
    \E k \in 1..Len(nodes) :
        \/ nodes[k].node \in {"Loop", "Paste"}
        \/ nodes[k].node = "Grp" /\ NamesIndexOutside(nodes[k].children)

\* seq! has expanded an invocation
Expanded == pc = "expanded" /\ ret.op = "seq"

\* Only the sections of the body are repeated
SectionsOnly == HasSection(item.body) /\ ~NamesIndexOutside(item.body)

\* C22: each section is emitted once for each index of the range, in
\* ascending order, N in copy i being i, alone and pasted; the tokens before
\* and after a section stay where they are, and an empty range leaves no copy.
C22_RepetitionOrder ==
    (Expanded /\ SectionsOnly) =>
        /\ output.stream = Copy(item.body, 0, item.seq_data.range_kind)
        /\ Indexes(item.seq_data.range_kind) = <<>> =>
              output.stream = Copy(item.body, 0, Exclusive(0, 0))

\* C22 witness: a #(f~N N)* , with N in 1..=3
C22_Witness ==
    /\ Expanded
    /\ item.seq_data.range_kind = Inclusive(1, 3)
    /\ item.body = <<Plain(Ident("a")), Sec(<<Paste(<<Fixed("f"), Index>>), Loop>>),
                     Plain(Punct(","))>>
    /\ output.stream = <<Ident("a"), Ident("f1"), Literal("1", "Int"),
                         Ident("f2"), Literal("2", "Int"),
                         Ident("f3"), Literal("3", "Int"), Punct(",")>>

\* C23: a body that has a section and does not name N outside a section is
\* emitted once, only its sections repeated; any other body is repeated as a
\* whole for each index of the range, and a section in it is repeated for
\* every index of the range again in each copy.
C23_RepetitionScope ==
    Expanded =>
        output.stream =
            IF SectionsOnly THEN Copy(item.body, 0, item.seq_data.range_kind)
            ELSE Copies(item.body, Indexes(item.seq_data.range_kind), 1,
                        item.seq_data.range_kind)

\* C23 witness: N #(f~N)* with N in 0..2 is repeated as a whole, the section
\* twice in each copy
C23_Witness ==
    /\ Expanded
    /\ item.seq_data.range_kind = Exclusive(0, 2)
    /\ item.body = <<Loop, Sec(<<Paste(<<Fixed("f"), Index>>)>>)>>
    /\ output.stream = <<Literal("0", "Int"), Ident("f0"), Ident("f1"),
                         Literal("1", "Int"), Ident("f0"), Ident("f1")>>

====
